---- MODULE Spec2Model ----
(***************************************************************************)
(* mcp-vnc: a tool server that drives a remote desktop over VNC.  Every    *)
(* tool call opens its own VNC client, waits for the first framebuffer,    *)
(* runs the tool's callback on the client and disconnects.                 *)
(*                                                                         *)
(* Strings whose characters the program inspects (key names, typed text)   *)
(* are sequences of one-character strings.  The event loop is modelled as  *)
(* node runs it: a continuation that is ready to run (a settled promise)   *)
(* runs before any further timer or socket event is delivered; a handler   *)
(* runs from one await to the next without interruption.                   *)
(***************************************************************************)
EXTENDS Integers, Sequences, FiniteSets, TLC

(***************************************************************************)
(* Bounds of the model                                                     *)
(***************************************************************************)
\* number of tool calls the caller issues
NumOps == 2

Ops == 1..NumOps

\* width and height of the screen of the server
ScreenSize == 2

\* the largest number of calls the caller issues one after another
MaxCalls == 2

\* the largest length of the strings of '+', ' ' and a letter given to
\* parseKeyInput
MaxKeyLen == 4

(***************************************************************************)
(* src/src/vnc/keyboard.ts                                                 *)
(***************************************************************************)
\* the printable ASCII characters in code order, the first one is code 32;
\* the character U+0060 (grave accent) is written "grave"
Ascii ==
  << " ", "!", "\"", "#", "$", "%", "&", "'", "(", ")", "*", "+", ",", "-", ".", "/",
     "0", "1", "2", "3", "4", "5", "6", "7", "8", "9", ":", ";", "<", "=", ">", "?",
     "@", "A", "B", "C", "D", "E", "F", "G", "H", "I", "J", "K", "L", "M", "N", "O",
     "P", "Q", "R", "S", "T", "U", "V", "W", "X", "Y", "Z", "[", "\\", "]", "^", "_",
     "grave", "a", "b", "c", "d", "e", "f", "g", "h", "i", "j", "k", "l", "m", "n", "o",
     "p", "q", "r", "s", "t", "u", "v", "w", "x", "y", "z", "{", "|", "}", "~" >>

\* the result of charCodeAt on an empty string (NaN)
NaN == -1

\* characters outside the printable ASCII range and their codes: tab, line
\* feed, and U+00E9 and U+20AC, written "eacute" and "euro"
OtherChars == { <<"\t", 9>>, <<"\n", 10>>, <<"eacute", 233>>, <<"euro", 8364>> }

\* String.prototype.charCodeAt(0) of a one-character string
charCode(c) ==
  IF \E e \in OtherChars : e[1] = c
    THEN (CHOOSE e \in OtherChars : e[1] = c)[2]
    ELSE 31 + (CHOOSE k \in 1..Len(Ascii) : Ascii[k] = c)

\* key.charCodeAt(0)
charCodeAt0(key) == IF Len(key) = 0 THEN NaN ELSE charCode(key[1])

\* String.prototype.trim: whitespace is removed at both ends
Whitespace == {" ", "\t", "\n"}

RECURSIVE trimStart(_)
trimStart(s) ==
  IF Len(s) > 0 /\ s[1] \in Whitespace THEN trimStart(Tail(s)) ELSE s

RECURSIVE trimEnd(_)
trimEnd(s) ==
  IF Len(s) > 0 /\ s[Len(s)] \in Whitespace
    THEN trimEnd(SubSeq(s, 1, Len(s) - 1))
    ELSE s

trim(s) == trimEnd(trimStart(s))

\* String.prototype.split on a one-character separator
RECURSIVE split(_, _)
split(s, sep) ==
  IF \E k \in 1..Len(s) : s[k] = sep
    THEN LET k == CHOOSE j \in 1..Len(s) :
                    s[j] = sep /\ \A h \in 1..(j - 1) : s[h] # sep
         IN  <<SubSeq(s, 1, k - 1)>> \o split(SubSeq(s, k + 1, Len(s)), sep)
    ELSE <<s>>

\* parseKeyInput: the tokens between '+', trimmed; the last one is the key
parseKeyInput(keyInput) ==
  LET raw   == split(keyInput, "+")
      parts == [k \in 1..Len(raw) |-> trim(raw[k])]
  IN  IF Len(parts) = 1
        THEN [modifiers |-> <<>>, key |-> parts[1]]
        ELSE [modifiers |-> SubSeq(parts, 1, Len(parts) - 1),
              key       |-> parts[Len(parts)]]

\* the keyMap table of getKeysym: <<name, keysym>>
keyMap ==
  { <<<<"a">>, 97>>, <<<<"b">>, 98>>, <<<<"c">>, 99>>, <<<<"d">>, 100>>, <<<<"e">>, 101>>,
    <<<<"f">>, 102>>, <<<<"g">>, 103>>, <<<<"h">>, 104>>, <<<<"i">>, 105>>, <<<<"j">>, 106>>,
    <<<<"k">>, 107>>, <<<<"l">>, 108>>, <<<<"m">>, 109>>, <<<<"n">>, 110>>, <<<<"o">>, 111>>,
    <<<<"p">>, 112>>, <<<<"q">>, 113>>, <<<<"r">>, 114>>, <<<<"s">>, 115>>, <<<<"t">>, 116>>,
    <<<<"u">>, 117>>, <<<<"v">>, 118>>, <<<<"w">>, 119>>, <<<<"x">>, 120>>, <<<<"y">>, 121>>,
    <<<<"z">>, 122>>,
    <<<<"A">>, 65>>, <<<<"B">>, 66>>, <<<<"C">>, 67>>, <<<<"D">>, 68>>, <<<<"E">>, 69>>,
    <<<<"F">>, 70>>, <<<<"G">>, 71>>, <<<<"H">>, 72>>, <<<<"I">>, 73>>, <<<<"J">>, 74>>,
    <<<<"K">>, 75>>, <<<<"L">>, 76>>, <<<<"M">>, 77>>, <<<<"N">>, 78>>, <<<<"O">>, 79>>,
    <<<<"P">>, 80>>, <<<<"Q">>, 81>>, <<<<"R">>, 82>>, <<<<"S">>, 83>>, <<<<"T">>, 84>>,
    <<<<"U">>, 85>>, <<<<"V">>, 86>>, <<<<"W">>, 87>>, <<<<"X">>, 88>>, <<<<"Y">>, 89>>,
    <<<<"Z">>, 90>>,
    <<<<"0">>, 48>>, <<<<"1">>, 49>>, <<<<"2">>, 50>>, <<<<"3">>, 51>>, <<<<"4">>, 52>>,
    <<<<"5">>, 53>>, <<<<"6">>, 54>>, <<<<"7">>, 55>>, <<<<"8">>, 56>>, <<<<"9">>, 57>>,
    <<<<"R","e","t","u","r","n">>, 65293>>, <<<<"r","e","t","u","r","n">>, 65293>>, <<<<"E","n","t","e","r">>, 65293>>, <<<<"e","n","t","e","r">>, 65293>>,
    <<<<"T","a","b">>, 65289>>, <<<<"t","a","b">>, 65289>>,
    <<<<"B","a","c","k","S","p","a","c","e">>, 65288>>, <<<<"B","a","c","k","s","p","a","c","e">>, 65288>>, <<<<"b","a","c","k","s","p","a","c","e">>, 65288>>,
    <<<<"D","e","l","e","t","e">>, 65535>>, <<<<"d","e","l","e","t","e">>, 65535>>,
    <<<<"E","s","c","a","p","e">>, 65307>>, <<<<"e","s","c","a","p","e">>, 65307>>, <<<<"E","s","c">>, 65307>>,
    <<<<"S","p","a","c","e">>, 32>>, <<<<"s","p","a","c","e">>, 32>>, <<<<" ">>, 32>>,
    <<<<"H","o","m","e">>, 65360>>, <<<<"h","o","m","e">>, 65360>>,
    <<<<"E","n","d">>, 65367>>, <<<<"e","n","d">>, 65367>>,
    <<<<"P","a","g","e","_","U","p">>, 65365>>, <<<<"P","a","g","e","U","p">>, 65365>>, <<<<"p","a","g","e","u","p">>, 65365>>, <<<<"P","a","g","e"," ","U","p">>, 65365>>,
    <<<<"P","a","g","e","_","D","o","w","n">>, 65366>>, <<<<"P","a","g","e","D","o","w","n">>, 65366>>, <<<<"p","a","g","e","d","o","w","n">>, 65366>>, <<<<"P","a","g","e"," ","D","o","w","n">>, 65366>>,
    <<<<"I","n","s","e","r","t">>, 65379>>, <<<<"i","n","s","e","r","t">>, 65379>>,
    <<<<"U","p">>, 65362>>, <<<<"u","p">>, 65362>>, <<<<"D","o","w","n">>, 65364>>, <<<<"d","o","w","n">>, 65364>>,
    <<<<"L","e","f","t">>, 65361>>, <<<<"l","e","f","t">>, 65361>>, <<<<"R","i","g","h","t">>, 65363>>, <<<<"r","i","g","h","t">>, 65363>>,
    <<<<"F","1">>, 65470>>, <<<<"f","1">>, 65470>>, <<<<"F","2">>, 65471>>, <<<<"f","2">>, 65471>>,
    <<<<"F","3">>, 65472>>, <<<<"f","3">>, 65472>>, <<<<"F","4">>, 65473>>, <<<<"f","4">>, 65473>>,
    <<<<"F","5">>, 65474>>, <<<<"f","5">>, 65474>>, <<<<"F","6">>, 65475>>, <<<<"f","6">>, 65475>>,
    <<<<"F","7">>, 65476>>, <<<<"f","7">>, 65476>>, <<<<"F","8">>, 65477>>, <<<<"f","8">>, 65477>>,
    <<<<"F","9">>, 65478>>, <<<<"f","9">>, 65478>>, <<<<"F","1","0">>, 65479>>, <<<<"f","1","0">>, 65479>>,
    <<<<"F","1","1">>, 65480>>, <<<<"f","1","1">>, 65480>>, <<<<"F","1","2">>, 65481>>, <<<<"f","1","2">>, 65481>>,
    <<<<"C","t","r","l">>, 65507>>, <<<<"c","t","r","l">>, 65507>>, <<<<"C","o","n","t","r","o","l">>, 65507>>, <<<<"c","o","n","t","r","o","l">>, 65507>>,
    <<<<"S","h","i","f","t">>, 65505>>, <<<<"s","h","i","f","t">>, 65505>>, <<<<"A","l","t">>, 65513>>, <<<<"a","l","t">>, 65513>>,
    <<<<"S","u","p","e","r">>, 65515>>, <<<<"s","u","p","e","r">>, 65515>>, <<<<"M","e","t","a">>, 65511>>, <<<<"m","e","t","a">>, 65511>>,
    <<<<"C","m","d">>, 65511>>, <<<<"c","m","d">>, 65511>>, <<<<"W","i","n">>, 65515>>, <<<<"w","i","n">>, 65515>>,
    <<<<"-">>, 45>>, <<<<"=">>, 61>>, <<<<"[">>, 91>>, <<<<"]">>, 93>>,
    <<<<"\\">>, 92>>, <<<<";">>, 59>>, <<<<"'">>, 39>>, <<<<",">>, 44>>,
    <<<<".">>, 46>>, <<<<"/">>, 47>>, <<<<"grave">>, 96>>,
    <<<<"!">>, 33>>, <<<<"@">>, 64>>, <<<<"#">>, 35>>, <<<<"$">>, 36>>, <<<<"%">>, 37>>,
    <<<<"^">>, 94>>, <<<<"&">>, 38>>, <<<<"*">>, 42>>, <<<<"(">>, 40>>, <<<<")">>, 41>>,
    <<<<"_">>, 95>>, <<<<"+">>, 43>>, <<<<"{">>, 123>>, <<<<"}">>, 125>>, <<<<"|">>, 124>>,
    <<<<":">>, 58>>, <<<<"\"">>, 34>>, <<<<"<">>, 60>>, <<<<">">>, 62>>, <<<<"?">>, 63>>,
    <<<<"~">>, 126>> }

\* getKeysym returns keyMap[key] alone
getKeysym_noFallback(key) ==
  IF \E e \in keyMap : e[1] = key
    THEN (CHOOSE e \in keyMap : e[1] = key)[2]
    ELSE NaN

\* getKeysym: keyMap[key] || key.charCodeAt(0)
getKeysym(key) ==
  IF \E e \in keyMap : e[1] = key
    THEN (CHOOSE e \in keyMap : e[1] = key)[2]
    ELSE charCodeAt0(key)

\* charNeedsShift: shiftChars.includes(char)
shiftChars ==
  <<"~", "!", "@", "#", "$", "%", "^", "&", "*", "(", ")", "_", "+", "{", "}",
    "|", ":", "\"", "<", ">", "?">>

charNeedsShift(char) == \E k \in 1..Len(shiftChars) : shiftChars[k] = char

\* getUnshiftedChar: shiftMap[char] || char
shiftMap ==
  { <<"~", "grave">>, <<"!", "1">>, <<"@", "2">>, <<"#", "3">>, <<"$", "4">>,
    <<"%", "5">>, <<"^", "6">>, <<"&", "7">>, <<"*", "8">>, <<"(", "9">>,
    <<")", "0">>, <<"_", "-">>, <<"+", "=">>, <<"{", "[">>, <<"}", "]">>,
    <<"|", "\\">>, <<":", ";">>, <<"\"", "'">>, <<"<", ",">>, <<">", ".">>,
    <<"?", "/">> }

\* getUnshiftedChar without its table: every character is its own base key
getUnshiftedChar_noTable(char) == char

getUnshiftedChar(char) ==
  IF \E e \in shiftMap : e[1] = char
    THEN (CHOOSE e \in shiftMap : e[1] = char)[2]
    ELSE char

(***************************************************************************)
(* State                                                                   *)
(***************************************************************************)
VARIABLES
  pc,              \* position of every tool call
  req,             \* request.params of every tool call
  returnValue,     \* what parseKeyInput or getKeysym, called alone, returned
  clientsCreated,  \* number of VncClient objects constructed so far
  client,          \* the VncClient a call's createConnection constructed
  lib,             \* connection state of that client
  screen,          \* clientWidth and clientHeight as the callback read them
  hasReceivedInitialFramebuffer,
  setup,           \* state of the promise createConnection returned
  setupTimer,      \* the 15000 ms timer of createConnection
  idx,             \* loop position of the running callback
  line,            \* the line handleTypeMultiline is typing
  trace,           \* what the call did, in order
  thrown,          \* the error raised inside the call, if any
  result,          \* what the CallTool handler gave to the RPC layer
  pixelFormat,     \* client.pixelFormat, read by handleScreenshot only
  fb,              \* client.fb, read by handleScreenshot only
  framebuffer,     \* handleScreenshot: the local variable framebuffer
  frameTimer,      \* handleScreenshot: the 2000 ms timer
  frameListener,   \* handleScreenshot: the once('frameUpdated') listener
  imageBuffer      \* captureScreenshotWithDimensions: imageBuffer.length

sessionVars ==
  <<returnValue, req, clientsCreated, client, hasReceivedInitialFramebuffer, setup,
    setupTimer>>

screenshotVars ==
  <<pixelFormat, fb, framebuffer, frameTimer, frameListener, imageBuffer>>

vars ==
  <<pc, req, returnValue, clientsCreated, client, lib, screen,
    hasReceivedInitialFramebuffer, setup, setupTimer, idx, line, trace,
    thrown, result, pixelFormat, fb, framebuffer, frameTimer, frameListener,
    imageBuffer>>

\* an entry of trace
Event(kind, c, p1, p2, p3) ==
  [kind |-> kind, client |-> c, p1 |-> p1, p2 |-> p2, p3 |-> p3]

keyEvent(c, keysym, down) == Event("key", c, keysym, IF down THEN 1 ELSE 0, 0)

pointerEvent(c, x, y, mask) == Event("pointer", c, x, y, mask)

\* await new Promise(resolve => setTimeout(resolve, ms))
wait(ms) == Event("wait", 0, ms, 0, 0)

\* one item of a result's content: a text made of a fixed part, the numbers
\* and the string put into it
TextItem(prefix, msg, nums, str) ==
  [type |-> "text", prefix |-> prefix, msg |-> msg, nums |-> nums, str |-> str]

NoError == TextItem("", "", <<>>, <<>>)

NoResult == [kind |-> "none", content |-> <<>>]

NoRequest ==
  [name |-> "", x |-> 0, y |-> 0, button |-> "", double |-> FALSE,
   key |-> <<>>, text |-> <<>>, enter |-> FALSE, lines |-> <<>>, delay |-> 0]

\* the message of an exception the VNC library throws from a send
LibraryError == TextItem("", "library exception", <<>>, <<>>)

(***************************************************************************)
(* src/src/server.ts: the CallTool request handler                         *)
(***************************************************************************)
\* the catch clause rethrows: the error goes to the RPC layer
CallToolCatch_rethrows(error) == [kind |-> "thrown", content |-> <<>>]

\* the catch clause: the error becomes a result with one text item
CallToolCatch(error) ==
  [kind    |-> "response",
   content |-> <<TextItem("Error: ", error.msg, error.nums, error.str)>>]

CallToolReturn(content) == [kind |-> "response", content |-> content]

\* a continuation of some call is ready to run: it runs before the event
\* loop delivers another timer or socket event
ContinuationReady == \E p \in Ops : pc[p] \in {"ready", "failed", "captured"}

(***************************************************************************)
(* src/src/vnc/client.ts                                                   *)
(***************************************************************************)
\* new VncClient(...): a new object, here the next unused identity
newVncClient(created) == created + 1

\* createConnection up to the return of the promise: the client is
\* constructed, the listeners are registered, connect is called and the
\* timer is set
createConnection(o) ==
  /\ clientsCreated' = clientsCreated + 1
  /\ client' = [client EXCEPT ![o] = newVncClient(clientsCreated)]
  /\ hasReceivedInitialFramebuffer' =
       [hasReceivedInitialFramebuffer EXCEPT ![o] = FALSE]
  /\ lib' = [lib EXCEPT ![o] = "connecting"]
  /\ setup' = [setup EXCEPT ![o] = "pending"]
  /\ setupTimer' = [setupTimer EXCEPT ![o] = "armed"]
  /\ trace' = [trace EXCEPT ![o] =
                 @ \o <<Event("connect", newVncClient(clientsCreated), 0, 0, 0)>>]
  /\ pc' = [pc EXCEPT ![o] = "setup"]

\* a Buffer, or the absence of one (null, undefined)
Buffer(bytes) == [present |-> TRUE, bytes |-> bytes]

NoBuffer == [present |-> FALSE, bytes |-> <<>>]

\* the screen of the server is ScreenSize x ScreenSize; <<0, 0>> is what
\* clientWidth || 0 and clientHeight || 0 give while the size is not known
Screens == {<<0, 0>>, <<ScreenSize, ScreenSize>>}

\* the framebuffers the library can hold: 4, 2 and 5 bytes per pixel, or none
Framebuffers ==
  { Buffer([k \in 1..(n * ScreenSize * ScreenSize) |-> 0]) : n \in {4, 2, 5} }
    \cup {NoBuffer}

\* vncClient.on('connected')
onConnected(o) ==
  /\ ~ContinuationReady
  /\ lib[o] = "connecting"
  /\ lib' = [lib EXCEPT ![o] = "connected"]
  /\ UNCHANGED <<pc, idx, line, screen, trace, thrown, result>>
  /\ UNCHANGED sessionVars
  /\ UNCHANGED screenshotVars

\* a pixel format as the server declares it in its ServerInit message
PixelFormat(redShift, greenShift, blueShift, redMax, greenMax, blueMax) ==
  [redShift |-> redShift, greenShift |-> greenShift, blueShift |-> blueShift,
   redMax |-> redMax, greenMax |-> greenMax, blueMax |-> blueMax]

\* R = 0, G = 8, B = 16 and every maximum 255
StandardRGBA == PixelFormat(0, 8, 16, 255, 255, 255)

\* red and blue exchanged: R = 16, G = 8, B = 0
BGRX == PixelFormat(16, 8, 0, 255, 255, 255)

\* the pixel formats a server declares
PixelFormats == {StandardRGBA, BGRX}

\* client.pixelFormat is known once the handshake is over; it is read by
\* handleScreenshot only and followed for its calls only
serverInit(o) ==
  /\ \E pf \in PixelFormats :
       pixelFormat' = [pixelFormat EXCEPT ![o] =
                         IF req[o].name = "vnc_screenshot" THEN pf ELSE @]
  /\ UNCHANGED <<fb, framebuffer, frameTimer, frameListener, imageBuffer>>

\* the 'authenticated' listener also resolves the promise of createConnection
onAuthenticated_resolves(o) ==
  /\ ~ContinuationReady
  /\ lib[o] = "connected"
  /\ trace' = [trace EXCEPT ![o] =
                 @ \o <<Event("frameRequest", client[o], 0, 0, 0)>>]
  /\ lib' = [lib EXCEPT ![o] = "authenticated"]
  /\ IF setup[o] = "pending"
       THEN /\ setup' = [setup EXCEPT ![o] = "resolved"]
            /\ pc' = [pc EXCEPT ![o] = "ready"]
       ELSE UNCHANGED <<setup, pc>>
  /\ UNCHANGED <<idx, line, screen, thrown, result>>
  /\ UNCHANGED <<returnValue, req, clientsCreated, client, hasReceivedInitialFramebuffer,
                 setupTimer>>
  /\ serverInit(o)

\* vncClient.on('authenticated'): requests the initial full framebuffer
onAuthenticated(o) ==
  /\ ~ContinuationReady
  /\ lib[o] = "connected"
  /\ trace' = [trace EXCEPT ![o] =
                 @ \o <<Event("frameRequest", client[o], 0, 0, 0)>>]
  /\ lib' = [lib EXCEPT ![o] = "authenticated"]
  /\ UNCHANGED <<pc, idx, line, screen, thrown, result>>
  /\ UNCHANGED sessionVars
  /\ serverInit(o)

\* client.fb is read by handleScreenshot only, at the end of its wait for a
\* frame: the buffer is followed up to that point
ReadsFramebuffer(o) ==
  req[o].name = "vnc_screenshot" /\ pc[o] \in {"setup", "frame_wait"}

\* the 'frameUpdated' event with the framebuffer newFb: the listener of
\* createConnection resolves the promise at the first event; the
\* once-listener of handleScreenshot clears its timer and resolves its wait
frameUpdated(o, newFb) ==
  /\ ~ContinuationReady
  /\ lib[o] = "authenticated"
  /\ fb' = [fb EXCEPT ![o] = IF ReadsFramebuffer(o) THEN newFb ELSE @]
  /\ IF ~hasReceivedInitialFramebuffer[o]
       THEN /\ hasReceivedInitialFramebuffer' =
                 [hasReceivedInitialFramebuffer EXCEPT ![o] = TRUE]
            /\ trace' = [trace EXCEPT ![o] =
                           @ \o <<Event("firstFrame", client[o], 0, 0, 0)>>]
            /\ IF setup[o] = "pending"
                 THEN /\ setup' = [setup EXCEPT ![o] = "resolved"]
                      /\ pc' = [pc EXCEPT ![o] = "ready"]
                 ELSE UNCHANGED <<setup, pc>>
            /\ UNCHANGED <<framebuffer, frameTimer, frameListener>>
       ELSE IF frameListener[o]
         THEN /\ frameListener' = [frameListener EXCEPT ![o] = FALSE]
              /\ frameTimer' = [frameTimer EXCEPT ![o] = "cleared"]
              /\ framebuffer' = [framebuffer EXCEPT ![o] = newFb]
              /\ pc' = [pc EXCEPT ![o] = "captured"]
              /\ UNCHANGED <<hasReceivedInitialFramebuffer, trace, setup>>
         ELSE UNCHANGED <<hasReceivedInitialFramebuffer, trace, setup, pc,
                          framebuffer, frameTimer, frameListener>>
  /\ UNCHANGED <<idx, line, screen, lib, thrown, result, imageBuffer,
                 pixelFormat>>
  /\ UNCHANGED <<returnValue, req, clientsCreated, client, setupTimer>>

\* vncClient.on('frameUpdated') and the listener of handleScreenshot
onFrameUpdated(o) == \E newFb \in Framebuffers : frameUpdated(o, newFb)

\* reject(error) is not called: the promise stays as it is
reject_notCalled(o, how) == UNCHANGED <<setup, pc>>

\* reject(error) settles the promise again when it is already settled
reject_settlesAgain(o, how) ==
  /\ setup' = [setup EXCEPT ![o] = how]
  /\ pc' = [pc EXCEPT ![o] = "failed"]

\* reject(error) of the promise of createConnection
reject(o, how) ==
  IF setup[o] = "pending"
    THEN /\ setup' = [setup EXCEPT ![o] = how]
         /\ pc' = [pc EXCEPT ![o] = "failed"]
    ELSE UNCHANGED <<setup, pc>>

\* vncClient.on('error'): a transport error, the connection is gone
onError(o) ==
  /\ ~ContinuationReady
  /\ lib[o] \in {"connecting", "connected", "authenticated"}
  /\ lib' = [lib EXCEPT ![o] = "error"]
  /\ reject(o, "error")
  /\ UNCHANGED <<idx, line, screen, trace, thrown, result>>
  /\ UNCHANGED <<returnValue, req, clientsCreated, client, hasReceivedInitialFramebuffer,
                 setupTimer>>
  /\ UNCHANGED screenshotVars

\* vncClient.on('disconnect'): the remote side closed the connection
onDisconnect(o) ==
  /\ ~ContinuationReady
  /\ lib[o] \in {"connecting", "connected", "authenticated"}
  /\ lib' = [lib EXCEPT ![o] = "closed"]
  /\ UNCHANGED <<pc, idx, line, screen, trace, thrown, result>>
  /\ UNCHANGED sessionVars
  /\ UNCHANGED screenshotVars

\* the callback of setTimeout(..., 15000) does not reject
onConnectionTimeout_noReject(o) ==
  /\ ~ContinuationReady
  /\ setupTimer[o] = "armed"
  /\ setupTimer' = [setupTimer EXCEPT ![o] = "fired"]
  /\ UNCHANGED <<setup, pc>>
  /\ UNCHANGED <<idx, line, screen, trace, lib, thrown, result>>
  /\ UNCHANGED <<returnValue, req, clientsCreated, client, hasReceivedInitialFramebuffer>>
  /\ UNCHANGED screenshotVars

\* the callback of setTimeout(..., 15000)
onConnectionTimeout(o) ==
  /\ ~ContinuationReady
  /\ setupTimer[o] = "armed"
  /\ setupTimer' = [setupTimer EXCEPT ![o] = "fired"]
  /\ reject(o, "timeout")
  /\ UNCHANGED <<idx, line, screen, trace, lib, thrown, result>>
  /\ UNCHANGED <<returnValue, req, clientsCreated, client, hasReceivedInitialFramebuffer>>
  /\ UNCHANGED screenshotVars

\* the error createConnection rejects with
connectionError(how) ==
  IF how = "timeout"
    THEN TextItem("", "VNC connection timeout", <<>>, <<>>)
    ELSE TextItem("", "VNC connection error: ", <<>>, <<>>)

\* executeWithConnection when createConnection rejected: the await throws
\* outside the try block, the error reaches the catch of the CallTool handler
connectionFailed(o) ==
  /\ pc[o] = "failed"
  /\ thrown' = [thrown EXCEPT ![o] = connectionError(setup[o])]
  /\ result' = [result EXCEPT ![o] = CallToolCatch(connectionError(setup[o]))]
  /\ trace' = [trace EXCEPT ![o] = @ \o <<Event("response", 0, 0, 0, 0)>>]
  /\ pc' = [pc EXCEPT ![o] = "done"]
  /\ UNCHANGED <<idx, line, screen, lib>>
  /\ UNCHANGED sessionVars
  /\ UNCHANGED screenshotVars

\* executeWithConnection without finally: disconnect is called after the
\* callback has returned, and not when it threw
executeWithConnectionExit_noFinally(c, returned) ==
  IF returned
    THEN <<Event("returned", c, 0, 0, 0), Event("disconnect", c, 0, 0, 0)>>
    ELSE <<Event("threw", c, 0, 0, 0)>>

\* what executeWithConnection does when the callback has ended: the finally
\* block calls disconnect, whether the callback returned or threw
executeWithConnectionExit(c, returned) ==
  <<Event(IF returned THEN "returned" ELSE "threw", c, 0, 0, 0),
    Event("disconnect", c, 0, 0, 0)>>

\* disconnect: client.disconnect() closes a connection that is open; an
\* exception it throws is caught and logged
clientDisconnect(state) ==
  IF state \in {"connecting", "connected", "authenticated"}
    THEN "disconnected"
    ELSE state

\* the callback has ended with the trace tr: finally, then the result or the
\* error goes through the tool handler to the CallTool handler
callbackReturns(o, tr, content) ==
  /\ lib' = [lib EXCEPT ![o] = clientDisconnect(@)]
  /\ trace' = [trace EXCEPT ![o] =
                 tr \o executeWithConnectionExit(client[o], TRUE)
                    \o <<Event("response", 0, 0, 0, 0)>>]
  /\ result' = [result EXCEPT ![o] = CallToolReturn(content)]
  /\ pc' = [pc EXCEPT ![o] = "done"]
  /\ UNCHANGED <<idx, thrown>>

callbackThrows(o, tr, error) ==
  /\ lib' = [lib EXCEPT ![o] = clientDisconnect(@)]
  /\ trace' = [trace EXCEPT ![o] =
                 tr \o executeWithConnectionExit(client[o], FALSE)
                    \o <<Event("response", 0, 0, 0, 0)>>]
  /\ thrown' = [thrown EXCEPT ![o] = error]
  /\ result' = [result EXCEPT ![o] = CallToolCatch(error)]
  /\ pc' = [pc EXCEPT ![o] = "done"]
  /\ UNCHANGED idx

\* the callback suspends at an await of a timer
callbackAwaits(o, tr, position, i) ==
  /\ trace' = [trace EXCEPT ![o] = tr]
  /\ pc' = [pc EXCEPT ![o] = position]
  /\ idx' = [idx EXCEPT ![o] = i]
  /\ UNCHANGED <<lib, thrown, result>>

\* a step of a callback runs when the promise it awaits is settled: at
\* "ready" as a continuation, anywhere else when its timer fires
Resumes(o) == pc[o] = "ready" \/ ~ContinuationReady

\* validateCoordinates with the bounds taken as inclusive
validateCoordinates_inclusive(screenWidth, screenHeight, x, y) ==
  IF screenWidth = 0 \/ screenHeight = 0
    THEN [valid |-> TRUE, error |-> NoError]
    ELSE IF x < 0 \/ x > screenWidth \/ y < 0 \/ y > screenHeight
      THEN [valid |-> FALSE,
            error |-> TextItem("", "Coordinates are outside screen bounds",
                               <<x, y, 0, 0, screenWidth - 1, screenHeight - 1>>,
                               <<>>)]
      ELSE [valid |-> TRUE, error |-> NoError]

\* validateCoordinates
validateCoordinates(screenWidth, screenHeight, x, y) ==
  IF screenWidth = 0 \/ screenHeight = 0
    THEN [valid |-> TRUE, error |-> NoError]
    ELSE IF x < 0 \/ x >= screenWidth \/ y < 0 \/ y >= screenHeight
      THEN [valid |-> FALSE,
            error |-> TextItem("", "Coordinates are outside screen bounds",
                               <<x, y, 0, 0, screenWidth - 1, screenHeight - 1>>,
                               <<>>)]
      ELSE [valid |-> TRUE, error |-> NoError]

\* validateCoordinates alone: the coordinates of a request are checked
\* against the size of a screen
Validate(o) ==
  /\ pc[o] = "validate"
  /\ LET coordValidation ==
           validateCoordinates(screen[o][1], screen[o][2], req[o].x, req[o].y)
     IN  /\ pc' = [pc EXCEPT ![o] = IF coordValidation.valid THEN "valid"
                                                             ELSE "invalid"]
         /\ thrown' = [thrown EXCEPT ![o] = coordValidation.error]
  /\ UNCHANGED <<idx, line, screen, trace, lib, result>>
  /\ UNCHANGED sessionVars
  /\ UNCHANGED screenshotVars

\* parseKeyInput alone, on the key of a request
Parse(o) ==
  /\ pc[o] = "parse"
  /\ returnValue' = [returnValue EXCEPT ![o] = parseKeyInput(req[o].key)]
  /\ pc' = [pc EXCEPT ![o] = "parsed"]
  /\ UNCHANGED <<req, clientsCreated, client, hasReceivedInitialFramebuffer,
                 setup, setupTimer>>
  /\ UNCHANGED <<idx, line, screen, trace, lib, thrown, result>>
  /\ UNCHANGED screenshotVars

\* getKeysym alone, on the key of a request
Keysym(o) ==
  /\ pc[o] = "keysym"
  /\ returnValue' = [returnValue EXCEPT ![o] = getKeysym(req[o].key)]
  /\ pc' = [pc EXCEPT ![o] = "keysymed"]
  /\ UNCHANGED <<req, clientsCreated, client, hasReceivedInitialFramebuffer,
                 setup, setupTimer>>
  /\ UNCHANGED <<idx, line, screen, trace, lib, thrown, result>>
  /\ UNCHANGED screenshotVars
(***************************************************************************)
(* src/src/server.ts: the input tools                                      *)
(***************************************************************************)
\* buttonMap with the masks of the right and the middle button exchanged
buttonMask_exchanged(button) ==
  CASE button = "left"   -> 1
    [] button = "right"  -> 2
    [] button = "middle" -> 4
    [] OTHER             -> 1

\* handleClick: buttonMap[button] || buttonMap.left, with button || 'left'
buttonMask(button) ==
  CASE button = "left"   -> 1
    [] button = "right"  -> 4
    [] button = "middle" -> 2
    [] OTHER             -> 1

\* handleClick ignores args.double
isDouble_ignored(double) == FALSE

\* handleClick: args.double || false
isDouble(double) == double

\* handleClick: the text of the result
clickText(r) ==
  TextItem("", IF isDouble(r.double) THEN "double-clicked" ELSE "clicked",
           <<r.x, r.y>>, <<>>)

\* handleClick, the callback given to executeWithConnection
handleClick(o) ==
  /\ req[o].name = "vnc_click"
  /\ Resumes(o)
  /\ LET x    == req[o].x
         y    == req[o].y
         c    == client[o]
         mask == buttonMask(req[o].button)
         begin == trace[o] \o <<Event("callback", c, 0, 0, 0)>>
     IN  \E sent \in BOOLEAN, s \in Screens :
           LET coordValidation == validateCoordinates(s[1], s[2], x, y)
           IN
           CASE pc[o] = "ready" /\ ~coordValidation.valid ->
                  /\ screen' = [screen EXCEPT ![o] = s]
                  /\ callbackThrows(o, begin, coordValidation.error)
             [] pc[o] = "ready" /\ coordValidation.valid ->
                  /\ screen' = [screen EXCEPT ![o] = s]
                  /\ IF ~sent
                    THEN callbackThrows(o, begin, LibraryError)
                    ELSE IF isDouble(req[o].double)
                      THEN callbackAwaits(o,
                             begin \o <<pointerEvent(c, x, y, mask), wait(50)>>,
                             "dblclick_down1", 0)
                      ELSE callbackAwaits(o,
                             begin \o <<pointerEvent(c, x, y, mask), wait(100)>>,
                             "click_down", 0)
             [] pc[o] = "dblclick_down1" ->
                  /\ UNCHANGED screen
                  /\ IF ~sent
                    THEN callbackThrows(o, trace[o], LibraryError)
                    ELSE callbackAwaits(o,
                           trace[o] \o <<pointerEvent(c, x, y, 0), wait(50)>>,
                           "dblclick_up1", 0)
             [] pc[o] = "dblclick_up1" ->
                  /\ UNCHANGED screen
                  /\ IF ~sent
                    THEN callbackThrows(o, trace[o], LibraryError)
                    ELSE callbackAwaits(o,
                           trace[o] \o <<pointerEvent(c, x, y, mask), wait(50)>>,
                           "dblclick_down2", 0)
             [] pc[o] \in {"dblclick_down2", "click_down"} ->
                  /\ UNCHANGED screen
                  /\ IF ~sent
                    THEN callbackThrows(o, trace[o], LibraryError)
                    ELSE callbackReturns(o,
                           trace[o] \o <<pointerEvent(c, x, y, 0)>>,
                           <<clickText(req[o])>>)
             [] OTHER -> FALSE
  /\ UNCHANGED line
  /\ UNCHANGED sessionVars
  /\ UNCHANGED screenshotVars

\* handleMoveMouse sends the pointer event before it validates
handleMoveMouse_sendsFirst(o) ==
  /\ req[o].name = "vnc_move_mouse"
  /\ pc[o] = "ready"
  /\ LET x == req[o].x
         y == req[o].y
         c == client[o]
         begin == trace[o] \o <<Event("callback", c, 0, 0, 0),
                                pointerEvent(c, x, y, 0)>>
     IN  \E sent \in BOOLEAN, s \in Screens :
           LET coordValidation == validateCoordinates(s[1], s[2], x, y)
           IN
           /\ screen' = [screen EXCEPT ![o] = s]
           /\ IF ~coordValidation.valid
             THEN callbackThrows(o, begin, coordValidation.error)
             ELSE IF ~sent
               THEN callbackThrows(o, begin, LibraryError)
               ELSE callbackReturns(o, begin,
                      <<TextItem("", "Moved mouse to", <<x, y>>, <<>>)>>)
  /\ UNCHANGED line
  /\ UNCHANGED sessionVars
  /\ UNCHANGED screenshotVars

\* handleMoveMouse sends the pointer event with the left button pressed
handleMoveMouse_pressesButton(o) ==
  /\ req[o].name = "vnc_move_mouse"
  /\ pc[o] = "ready"
  /\ LET x == req[o].x
         y == req[o].y
         c == client[o]
         begin == trace[o] \o <<Event("callback", c, 0, 0, 0)>>
     IN  \E sent \in BOOLEAN, s \in Screens :
           LET coordValidation == validateCoordinates(s[1], s[2], x, y)
           IN
           /\ screen' = [screen EXCEPT ![o] = s]
           /\ IF ~coordValidation.valid
             THEN callbackThrows(o, begin, coordValidation.error)
             ELSE IF ~sent
               THEN callbackThrows(o, begin, LibraryError)
               ELSE callbackReturns(o,
                      begin \o <<pointerEvent(c, x, y, 1)>>,
                      <<TextItem("", "Moved mouse to", <<x, y>>, <<>>)>>)
  /\ UNCHANGED line
  /\ UNCHANGED sessionVars
  /\ UNCHANGED screenshotVars

\* handleMoveMouse, the callback given to executeWithConnection
handleMoveMouse(o) ==
  /\ req[o].name = "vnc_move_mouse"
  /\ pc[o] = "ready"
  /\ LET x == req[o].x
         y == req[o].y
         c == client[o]
         begin == trace[o] \o <<Event("callback", c, 0, 0, 0)>>
     IN  \E sent \in BOOLEAN, s \in Screens :
           LET coordValidation == validateCoordinates(s[1], s[2], x, y)
           IN
           /\ screen' = [screen EXCEPT ![o] = s]
           /\ IF ~coordValidation.valid
             THEN callbackThrows(o, begin, coordValidation.error)
             ELSE IF ~sent
               THEN callbackThrows(o, begin, LibraryError)
               ELSE callbackReturns(o,
                      begin \o <<pointerEvent(c, x, y, 0)>>,
                      <<TextItem("", "Moved mouse to", <<x, y>>, <<>>)>>)
  /\ UNCHANGED line
  /\ UNCHANGED sessionVars
  /\ UNCHANGED screenshotVars

\* handleKeyPress releases the modifiers in the order it pressed them
modifierToRelease_forward(modifierKeysyms, i) ==
  modifierKeysyms[Len(modifierKeysyms) + 1 - i]

\* handleKeyPress: the modifier released at position i of the loop
\* for (let i = modifierKeysyms.length - 1; i >= 0; i--)
modifierToRelease(modifierKeysyms, i) == modifierKeysyms[i]

\* handleKeyPress, the callback given to executeWithConnection
handleKeyPress(o) ==
  /\ req[o].name = "vnc_key_press"
  /\ Resumes(o)
  /\ LET parsed          == parseKeyInput(req[o].key)
         modifiers       == parsed.modifiers
         n               == Len(modifiers)
         modifierKeysyms == [k \in 1..n |-> getKeysym(modifiers[k])]
         mainKeysym      == getKeysym(parsed.key)
         c               == client[o]
         begin           == trace[o] \o <<Event("callback", c, 0, 0, 0)>>
         pressed         ==
           <<TextItem("", "Pressed key combination: ", <<>>, req[o].key)>>
     IN  \E sent \in BOOLEAN :
           CASE pc[o] = "ready" /\ n = 0 ->
                  IF ~sent
                    THEN callbackThrows(o, begin, LibraryError)
                    ELSE callbackAwaits(o,
                           begin \o <<keyEvent(c, mainKeysym, TRUE), wait(50)>>,
                           "key_down", 0)
             [] pc[o] = "key_down" ->
                  IF ~sent
                    THEN callbackThrows(o, trace[o], LibraryError)
                    ELSE callbackReturns(o,
                           trace[o] \o <<keyEvent(c, mainKeysym, FALSE)>>,
                           pressed)
             [] pc[o] = "ready" /\ n > 0 ->
                  IF ~sent
                    THEN callbackThrows(o, begin, LibraryError)
                    ELSE callbackAwaits(o,
                           begin \o <<keyEvent(c, modifierKeysyms[1], TRUE),
                                      wait(10)>>,
                           "modifiers_down", 1)
             [] pc[o] = "modifiers_down" /\ idx[o] < n ->
                  IF ~sent
                    THEN callbackThrows(o, trace[o], LibraryError)
                    ELSE callbackAwaits(o,
                           trace[o] \o
                             <<keyEvent(c, modifierKeysyms[idx[o] + 1], TRUE),
                               wait(10)>>,
                           "modifiers_down", idx[o] + 1)
             [] pc[o] = "modifiers_down" /\ idx[o] = n ->
                  IF ~sent
                    THEN callbackThrows(o, trace[o], LibraryError)
                    ELSE callbackAwaits(o,
                           trace[o] \o <<keyEvent(c, mainKeysym, TRUE), wait(50)>>,
                           "main_down", 0)
             [] pc[o] = "main_down" ->
                  IF ~sent
                    THEN callbackThrows(o, trace[o], LibraryError)
                    ELSE callbackAwaits(o,
                           trace[o] \o <<keyEvent(c, mainKeysym, FALSE), wait(10)>>,
                           "modifiers_up", n)
             [] pc[o] = "modifiers_up" /\ idx[o] >= 1 ->
                  IF ~sent
                    THEN callbackThrows(o, trace[o], LibraryError)
                    ELSE callbackAwaits(o,
                           trace[o] \o
                             <<keyEvent(c, modifierToRelease(modifierKeysyms,
                                                             idx[o]), FALSE),
                               wait(10)>>,
                           "modifiers_up", idx[o] - 1)
             [] pc[o] = "modifiers_up" /\ idx[o] = 0 ->
                  callbackReturns(o, trace[o], pressed)
             [] OTHER -> FALSE
  /\ UNCHANGED <<line, screen>>
  /\ UNCHANGED sessionVars
  /\ UNCHANGED screenshotVars

\* typeString: /[|:;&<>?/\\~`!@#$%^*()+=\[\]{}'",-]/.test(text)
specialChars ==
  {"|", ":", ";", "&", "<", ">", "?", "/", "\\", "~", "grave", "!", "@", "#",
   "$", "%", "^", "*", "(", ")", "+", "=", "[", "]", "{", "}", "'", "\"", ",",
   "-"}

hasSpecialChars(text) == \E k \in 1..Len(text) : text[k] \in specialChars

\* a text of 10 characters is long already
useSlowTyping_from10(text) == hasSpecialChars(text) \/ Len(text) >= 10

useSlowTyping(text) == hasSpecialChars(text) \/ Len(text) > 10

keyHoldTime(text) == IF useSlowTyping(text) THEN 75 ELSE 50

betweenKeyDelay(text) == IF useSlowTyping(text) THEN 100 ELSE 50

\* the text typeString is typing: args.text, or the current line
currentText(o) ==
  IF req[o].name = "vnc_type_text" THEN req[o].text ELSE req[o].lines[line[o]]

\* typeCharacter without its catch clause: the error of the library goes on
bufferError_notCaught(char) == LibraryError

\* typeCharacter: the error of its catch clause
bufferError(char) ==
  TextItem("",
           "VNC buffer error typing character. This may be a temporary issue - please retry the operation.",
           <<>>, <<char>>)

\* typeCharacter: the keysym of the key that is pressed for char
charKeysym(char) ==
  getKeysym(<<IF charNeedsShift(char) THEN getUnshiftedChar(char) ELSE char>>)

\* typeCharacter from its start to its first await
typeCharacterBegin(o, tr, text, k, sent) ==
  LET char == text[k]
      c    == client[o]
  IN  IF ~sent
        THEN callbackThrows(o, tr, bufferError(char))
        ELSE IF charNeedsShift(char)
          THEN callbackAwaits(o,
                 tr \o <<keyEvent(c, getKeysym(<<"S", "h", "i", "f", "t">>), TRUE),
                         wait(10)>>,
                 "shift_down", k)
          ELSE callbackAwaits(o,
                 tr \o <<keyEvent(c, charKeysym(char), TRUE),
                         wait(keyHoldTime(text))>>,
                 "char_down", k)

\* typeCharacter after its first await
typeCharacter(o) ==
  /\ req[o].name \in {"vnc_type_text", "vnc_type_multiline"}
  /\ ~ContinuationReady
  /\ LET text  == currentText(o)
         char  == text[idx[o]]
         c     == client[o]
         shift == getKeysym(<<"S", "h", "i", "f", "t">>)
     IN  \E sent \in BOOLEAN :
           CASE pc[o] = "shift_down" ->
                  IF ~sent
                    THEN callbackThrows(o, trace[o], bufferError(char))
                    ELSE callbackAwaits(o,
                           trace[o] \o <<keyEvent(c, charKeysym(char), TRUE),
                                         wait(keyHoldTime(text))>>,
                           "char_down", idx[o])
             [] pc[o] = "char_down" ->
                  IF ~sent
                    THEN callbackThrows(o, trace[o], bufferError(char))
                    ELSE IF charNeedsShift(char)
                      THEN callbackAwaits(o,
                             trace[o] \o <<keyEvent(c, charKeysym(char), FALSE),
                                           wait(10)>>,
                             "char_up", idx[o])
                      ELSE callbackAwaits(o,
                             trace[o] \o <<keyEvent(c, charKeysym(char), FALSE),
                                           wait(betweenKeyDelay(text))>>,
                             "char_gap", idx[o])
             [] pc[o] = "char_up" ->
                  IF ~sent
                    THEN callbackThrows(o, trace[o], bufferError(char))
                    ELSE callbackAwaits(o,
                           trace[o] \o <<keyEvent(c, shift, FALSE),
                                         wait(betweenKeyDelay(text))>>,
                           "char_gap", idx[o])
             [] OTHER -> FALSE
  /\ UNCHANGED line
  /\ UNCHANGED screen
  /\ UNCHANGED sessionVars
  /\ UNCHANGED screenshotVars

\* the Enter key of handleTypeText and handleTypeMultiline is pressed
enterDown(o, tr, sent) ==
  IF ~sent
    THEN callbackThrows(o, tr, LibraryError)
    ELSE callbackAwaits(o,
           tr \o <<keyEvent(client[o], getKeysym(<<"R", "e", "t", "u", "r", "n">>),
                            TRUE),
                   wait(50)>>,
           "enter_down", 0)

typedText(r) ==
  <<TextItem("", IF r.enter THEN "Typed text + Enter" ELSE "Typed text",
             <<>>, r.text)>>

typedLines(r) == <<TextItem("", "Typed lines", <<Len(r.lines)>>, <<>>)>>

\* handleTypeText presses Enter whatever args.enter is
afterTypeString_alwaysEnter(o, tr, sent) == enterDown(o, tr, sent)

\* handleTypeText after typeString has returned
afterTypeString(o, tr, sent) ==
  IF req[o].name = "vnc_type_text"
    THEN IF req[o].enter
           THEN enterDown(o, tr, sent)
           ELSE callbackReturns(o, tr, typedText(req[o]))
    ELSE enterDown(o, tr, sent)

\* typeString returns at once for an empty text and the handler goes on to
\* the next line without pressing Enter
typeStringFrom_skipsEmptyLine(o, tr, text, k, sent) ==
  IF k <= Len(text)
    THEN typeCharacterBegin(o, tr, text, k, sent)
    ELSE IF text = <<>> /\ req[o].name = "vnc_type_multiline"
      THEN callbackAwaits(o, tr \o <<wait(100)>>, "line_gap", 0)
      ELSE afterTypeString(o, tr, sent)

\* typeString: the loop over the characters of text, entered at character k
typeStringFrom(o, tr, text, k, sent) ==
  IF k <= Len(text)
    THEN typeCharacterBegin(o, tr, text, k, sent)
    ELSE afterTypeString(o, tr, sent)

\* typeString after a character has been typed: the next character, or the
\* return to the handler
typeString(o) ==
  /\ req[o].name \in {"vnc_type_text", "vnc_type_multiline"}
  /\ ~ContinuationReady
  /\ pc[o] = "char_gap"
  /\ \E sent \in BOOLEAN :
       typeStringFrom(o, trace[o], currentText(o), idx[o] + 1, sent)
  /\ UNCHANGED line
  /\ UNCHANGED screen
  /\ UNCHANGED sessionVars
  /\ UNCHANGED screenshotVars

\* handleTypeText, the callback given to executeWithConnection
handleTypeText(o) ==
  /\ req[o].name = "vnc_type_text"
  /\ Resumes(o)
  /\ \E sent \in BOOLEAN :
       CASE pc[o] = "ready" ->
              typeStringFrom(o,
                trace[o] \o <<Event("callback", client[o], 0, 0, 0)>>,
                req[o].text, 1, sent)
         [] pc[o] = "enter_down" ->
              IF ~sent
                THEN callbackThrows(o, trace[o], LibraryError)
                ELSE callbackReturns(o,
                       trace[o] \o
                         <<keyEvent(client[o],
                                    getKeysym(<<"R", "e", "t", "u", "r", "n">>),
                                    FALSE)>>,
                       typedText(req[o]))
         [] OTHER -> FALSE
  /\ UNCHANGED line
  /\ UNCHANGED screen
  /\ UNCHANGED sessionVars
  /\ UNCHANGED screenshotVars

\* handleTypeMultiline, the callback given to executeWithConnection
handleTypeMultiline(o) ==
  /\ req[o].name = "vnc_type_multiline"
  /\ Resumes(o)
  /\ LET lines == req[o].lines
         begin == trace[o] \o <<Event("callback", client[o], 0, 0, 0)>>
     IN  \E sent \in BOOLEAN :
           CASE pc[o] = "ready" /\ Len(lines) = 0 ->
                  callbackReturns(o, begin, typedLines(req[o])) /\ UNCHANGED line
             [] pc[o] = "ready" /\ Len(lines) > 0 ->
                  /\ line' = [line EXCEPT ![o] = 1]
                  /\ typeStringFrom(o, begin, lines[1], 1, sent)
             [] pc[o] = "enter_down" ->
                  /\ UNCHANGED line
                  /\ IF ~sent
                       THEN callbackThrows(o, trace[o], LibraryError)
                       ELSE callbackAwaits(o,
                              trace[o] \o
                                <<keyEvent(client[o],
                                           getKeysym(<<"R", "e", "t", "u", "r", "n">>),
                                           FALSE),
                                  wait(100)>>,
                              "line_gap", 0)
             [] pc[o] = "line_gap" /\ line[o] < Len(lines) ->
                  /\ line' = [line EXCEPT ![o] = @ + 1]
                  /\ typeStringFrom(o, trace[o], lines[line[o] + 1], 1, sent)
             [] pc[o] = "line_gap" /\ line[o] = Len(lines) ->
                  callbackReturns(o, trace[o], typedLines(req[o])) /\ UNCHANGED line
             [] OTHER -> FALSE
  /\ UNCHANGED screen
  /\ UNCHANGED sessionVars
  /\ UNCHANGED screenshotVars

(***************************************************************************)
(* src/src/server.ts: the screenshot tool                                  *)
(***************************************************************************)
\* convertToRGBA, sourceBytesPerPixel === 3: 'Converting RGB24 to RGBA32...'
RGB24ToRGBA32(buffer, pixelCount) ==
  [k \in 1..(pixelCount * 4) |->
     IF (k - 1) % 4 = 3
       THEN 255
       ELSE buffer[((k - 1) \div 4) * 3 + ((k - 1) % 4) + 1]]

\* the 16-bit value is read with the high byte first
RGB565ToRGBA32_bigEndian(buffer, pixelCount) ==
  LET pixel16(i) == 256 * buffer[2 * i + 1] + buffer[2 * i + 2]
      r5(i)      == (pixel16(i) \div 2048) % 32
      g6(i)      == (pixel16(i) \div 32) % 64
      b5(i)      == pixel16(i) % 32
  IN  [k \in 1..(pixelCount * 4) |->
         LET i == (k - 1) \div 4
         IN  CASE (k - 1) % 4 = 0 -> (r5(i) * 255) \div 31
               [] (k - 1) % 4 = 1 -> (g6(i) * 255) \div 63
               [] (k - 1) % 4 = 2 -> (b5(i) * 255) \div 31
               [] OTHER           -> 255]

\* convertToRGBA, sourceBytesPerPixel === 2: 'Converting RGB565 to
\* RGBA32...'; a quotient stored into the Buffer loses its fraction
RGB565ToRGBA32(buffer, pixelCount) ==
  LET pixel16(i) == buffer[2 * i + 1] + 256 * buffer[2 * i + 2]
      r5(i)      == (pixel16(i) \div 2048) % 32
      g6(i)      == (pixel16(i) \div 32) % 64
      b5(i)      == pixel16(i) % 32
  IN  [k \in 1..(pixelCount * 4) |->
         LET i == (k - 1) \div 4
         IN  CASE (k - 1) % 4 = 0 -> (r5(i) * 255) \div 31
               [] (k - 1) % 4 = 1 -> (g6(i) * 255) \div 63
               [] (k - 1) % 4 = 2 -> (b5(i) * 255) \div 31
               [] OTHER           -> 255]

\* the alpha byte is taken from the source as well
Palette8ToRGBA32_noAlpha(buffer, pixelCount) ==
  [k \in 1..(pixelCount * 4) |-> buffer[((k - 1) \div 4) + 1]]

\* convertToRGBA, sourceBytesPerPixel === 1: 'Converting 8-bit palette to
\* RGBA32...'
Palette8ToRGBA32(buffer, pixelCount) ==
  [k \in 1..(pixelCount * 4) |->
     IF (k - 1) % 4 = 3
       THEN 255
       ELSE buffer[((k - 1) \div 4) + 1]]

\* the zero-filled target buffer is returned for a format that is not known
unsupportedPixelFormat_zeroFill(n, pixelCount) ==
  [error |-> NoError, bytes |-> [k \in 1..(pixelCount * 4) |-> 0]]

\* convertToRGBA, the last line: n bytes for pixelCount pixels
unsupportedPixelFormat(n, pixelCount) ==
  [error |-> TextItem("", "Unsupported pixel format: bytes per pixel",
                      <<n, pixelCount>>, <<>>),
   bytes |-> <<>>]

\* convertToRGBA: the outcome is the converted buffer or the error thrown
convertToRGBA(buffer, width, height) ==
  LET pixelCount == width * height
      n          == Len(buffer)
  IN  IF n = 3 * pixelCount
        THEN [error |-> NoError, bytes |-> RGB24ToRGBA32(buffer, pixelCount)]
      ELSE IF n = 2 * pixelCount
        THEN [error |-> NoError, bytes |-> RGB565ToRGBA32(buffer, pixelCount)]
      ELSE IF n = pixelCount
        THEN [error |-> NoError, bytes |-> Palette8ToRGBA32(buffer, pixelCount)]
      ELSE unsupportedPixelFormat(n, pixelCount)

\* needsPixelFormatConversion
needsPixelFormatConversion(pf) ==
  LET isStandardRGBA ==
        /\ pf.redShift = 0
        /\ pf.greenShift = 8
        /\ pf.blueShift = 16
        /\ pf.redMax = 255
        /\ pf.greenMax = 255
        /\ pf.blueMax = 255
  IN  ~isStandardRGBA

\* bit j of the signed 32-bit integer whose bytes, lowest first, are pixel32;
\* the bits above bit 31 repeat the sign
bitAt(pixel32, j) ==
  LET b == IF j > 31 THEN 31 ELSE j
  IN  (pixel32[(b \div 8) + 1] \div (2 ^ (b % 8))) % 2

\* (pixel32 >> shift) & 0xFF: the shift count is taken modulo 32
shiftRightAndMask(pixel32, shift) ==
  LET s == shift % 32
  IN  bitAt(pixel32, s) + 2 * bitAt(pixel32, s + 1) + 4 * bitAt(pixel32, s + 2)
        + 8 * bitAt(pixel32, s + 3) + 16 * bitAt(pixel32, s + 4)
        + 32 * bitAt(pixel32, s + 5) + 64 * bitAt(pixel32, s + 6)
        + 128 * bitAt(pixel32, s + 7)

\* convertBGRXToRGBA; buffer.readUInt32LE(srcOffset) is kept as its four bytes
convertBGRXToRGBA(buffer, width, height, pf) ==
  LET pixelCount == width * height
      pixel32(i) == SubSeq(buffer, 4 * i + 1, 4 * i + 4)
      extra      == IF pf.redMax = 65280 THEN 8 ELSE 0
  IN  [k \in 1..(pixelCount * 4) |->
         LET i == (k - 1) \div 4
         IN  CASE (k - 1) % 4 = 0 -> shiftRightAndMask(pixel32(i), pf.redShift + extra)
               [] (k - 1) % 4 = 1 -> shiftRightAndMask(pixel32(i), pf.greenShift + extra)
               [] (k - 1) % 4 = 2 -> shiftRightAndMask(pixel32(i), pf.blueShift + extra)
               [] OTHER           -> 255]

\* handleScreenshot hands the captured framebuffer on as it is
normalizeFramebuffer_passesThrough(buffer, width, height) ==
  IF ~buffer.present
    THEN [error |-> TextItem("", "No framebuffer available", <<>>, <<>>),
          bytes |-> <<>>]
    ELSE [error |-> NoError, bytes |-> buffer.bytes]

\* handleScreenshot from the captured framebuffer to the call of
\* captureScreenshotWithDimensions: the buffer handed on, or the error thrown
normalizeFramebuffer(buffer, width, height) ==
  IF ~buffer.present
    THEN [error |-> TextItem("", "No framebuffer available", <<>>, <<>>),
          bytes |-> <<>>]
    ELSE LET converted ==
               IF Len(buffer.bytes) # 4 * (width * height)
                 THEN convertToRGBA(buffer.bytes, width, height)
                 ELSE [error |-> NoError, bytes |-> buffer.bytes]
             expectedBufferSize == width * height * 4
         IN  IF converted.error # NoError
               THEN converted
               ELSE IF Len(converted.bytes) # expectedBufferSize
                 THEN [error |-> TextItem("", "Framebuffer size mismatch",
                                          <<expectedBufferSize,
                                            Len(converted.bytes)>>, <<>>),
                       bytes |-> <<>>]
                 ELSE converted

\* captureScreenshotWithDimensions: the check before the encoding
invalidBytesPerPixel(buffer, width, height) ==
  Len(buffer) # 4 * (width * height)

\* the sizes in bytes of the JPEG the encoder can return
JpegSizes == {500000, 3200000}

\* the dimensions are not reduced
scaled_notReduced(dim, size) == dim

\* Math.floor(dim * Math.sqrt(800000 / size))
scaled(dim, size) ==
  CHOOSE f \in 0..dim :
    /\ f * f * size <= dim * dim * 800000
    /\ \/ f = dim
       \/ (f + 1) * (f + 1) * size > dim * dim * 800000

\* the image item with the MIME type of another encoding
ImageItem_png(size) ==
  [type |-> "image", data |-> size, mimeType |-> "image/png"]

ImageItem(size) == [type |-> "image", data |-> size, mimeType |-> "image/jpeg"]

\* captureScreenshotWithDimensions leaves delayText empty
screenshotContent_noDelayText(finalWidth, finalHeight, width, height, delay, size) ==
  <<TextItem("",
             IF finalWidth # width
               THEN "Screenshot captured (resized from)"
               ELSE "Screenshot captured",
             <<finalWidth, finalHeight, width, height, delay>>, <<>>),
    ImageItem(size)>>

\* captureScreenshotWithDimensions: the content of the result
screenshotContent(finalWidth, finalHeight, width, height, delay, size) ==
  <<TextItem("",
             CASE finalWidth # width /\ delay > 0 ->
                    "Screenshot captured (resized from) (after delay)"
               [] finalWidth # width /\ ~(delay > 0) ->
                    "Screenshot captured (resized from)"
               [] finalWidth = width /\ delay > 0 ->
                    "Screenshot captured (after delay)"
               [] OTHER -> "Screenshot captured",
             <<finalWidth, finalHeight, width, height, delay>>, <<>>),
    ImageItem(size)>>

\* handleScreenshot: the delay before the connection is opened
handleScreenshotDelay(o) ==
  /\ req[o].name = "vnc_screenshot"
  /\ ~ContinuationReady
  /\ pc[o] = "delay"
  /\ createConnection(o)
  /\ UNCHANGED <<returnValue, req, screen, idx, line, thrown, result>>
  /\ UNCHANGED screenshotVars

\* handleScreenshot, the callback given to executeWithConnection, and
\* captureScreenshotWithDimensions, with an encoder that returns a JPEG of
\* one of the given sizes
screenshotSteps(o, sizes) ==
  /\ req[o].name = "vnc_screenshot"
  /\ pc[o] \in {"ready", "captured"} \/ ~ContinuationReady
  /\ LET width  == screen[o][1]
         height == screen[o][2]
         delay  == req[o].delay
         c      == client[o]
         begin  == trace[o] \o <<Event("callback", c, 0, 0, 0)>>
         normal == normalizeFramebuffer(framebuffer[o], width, height)
     IN  CASE pc[o] = "ready" ->
                \E sent \in BOOLEAN, s \in Screens :
                  /\ screen' = [screen EXCEPT ![o] = s]
                  /\ IF s[1] = 0 \/ s[2] = 0
                       THEN /\ callbackThrows(o, begin,
                                 TextItem("", "Invalid screen dimensions",
                                          <<s[1], s[2]>>, <<>>))
                            /\ UNCHANGED screenshotVars
                       ELSE IF sent
                         THEN /\ callbackAwaits(o,
                                   begin \o <<Event("frameRequest", c, 1,
                                                     s[1], s[2])>>,
                                   "frame_wait", 0)
                              /\ frameListener' =
                                   [frameListener EXCEPT ![o] = TRUE]
                              /\ frameTimer' = [frameTimer EXCEPT ![o] = "armed"]
                              /\ UNCHANGED <<pixelFormat, fb, framebuffer, imageBuffer>>
                         ELSE /\ callbackAwaits(o, begin, "captured", 0)
                              /\ framebuffer' = [framebuffer EXCEPT ![o] = fb[o]]
                              /\ UNCHANGED <<pixelFormat, fb, frameListener, frameTimer,
                                             imageBuffer>>
           [] pc[o] = "captured" /\ normal.error # NoError ->
                /\ UNCHANGED screen
                /\ callbackThrows(o, trace[o], normal.error)
                /\ UNCHANGED screenshotVars
           [] pc[o] = "captured" /\ normal.error = NoError ->
                /\ UNCHANGED screen
                /\ IF invalidBytesPerPixel(normal.bytes, width, height)
                  THEN /\ callbackThrows(o, trace[o],
                            TextItem("", "Invalid bytes per pixel", <<>>, <<>>))
                       /\ UNCHANGED screenshotVars
                  ELSE /\ callbackAwaits(o,
                            trace[o] \o <<Event("encode", 0, width, height, 80)>>,
                            "encoding", 0)
                       /\ framebuffer' =
                            [framebuffer EXCEPT ![o] = Buffer(normal.bytes)]
                       /\ UNCHANGED <<pixelFormat, fb, frameListener, frameTimer, imageBuffer>>
           [] pc[o] = "encoding" ->
                /\ UNCHANGED screen
                /\ \E size \in sizes \cup {0} :
                  IF size = 0
                    THEN /\ callbackThrows(o, trace[o], LibraryError)
                         /\ UNCHANGED screenshotVars
                    ELSE IF size > 800000
                      THEN /\ callbackAwaits(o,
                                trace[o] \o <<Event("encode", 0,
                                                    scaled(width, size),
                                                    scaled(height, size), 75)>>,
                                "resizing", 0)
                           /\ imageBuffer' = [imageBuffer EXCEPT ![o] = size]
                           /\ UNCHANGED <<pixelFormat, fb, framebuffer, frameListener, frameTimer>>
                      ELSE /\ callbackReturns(o, trace[o],
                                screenshotContent(width, height, width, height,
                                                  delay, size))
                           /\ UNCHANGED screenshotVars
           [] pc[o] = "resizing" ->
                /\ UNCHANGED screen
                /\ \E size \in sizes \cup {0} :
                  IF size = 0
                    THEN /\ callbackThrows(o, trace[o], LibraryError)
                         /\ UNCHANGED screenshotVars
                    ELSE /\ callbackReturns(o, trace[o],
                              screenshotContent(scaled(width, imageBuffer[o]),
                                                scaled(height, imageBuffer[o]),
                                                width, height, delay, size))
                         /\ UNCHANGED screenshotVars
           [] OTHER -> FALSE
  /\ UNCHANGED line
  /\ UNCHANGED sessionVars

\* handleScreenshot and captureScreenshotWithDimensions
handleScreenshot(o) == screenshotSteps(o, JpegSizes)

\* the catch clause of handleScreenshot leaves framebuffer at null
onFrameTimeout_noFallback(o) ==
  /\ ~ContinuationReady
  /\ frameTimer[o] = "armed"
  /\ frameTimer' = [frameTimer EXCEPT ![o] = "fired"]
  /\ frameListener' = [frameListener EXCEPT ![o] = FALSE]
  /\ framebuffer' = [framebuffer EXCEPT ![o] = NoBuffer]
  /\ pc' = [pc EXCEPT ![o] = "captured"]
  /\ UNCHANGED <<pixelFormat, fb, imageBuffer>>
  /\ UNCHANGED <<idx, line, screen, trace, lib, thrown, result>>
  /\ UNCHANGED sessionVars

\* the callback of setTimeout(..., 2000) leaves the listener registered
onFrameTimeout_keepsListener(o) ==
  /\ ~ContinuationReady
  /\ frameTimer[o] = "armed"
  /\ frameTimer' = [frameTimer EXCEPT ![o] = "fired"]
  /\ UNCHANGED frameListener
  /\ framebuffer' = [framebuffer EXCEPT ![o] = fb[o]]
  /\ pc' = [pc EXCEPT ![o] = "captured"]
  /\ UNCHANGED <<pixelFormat, fb, imageBuffer>>
  /\ UNCHANGED <<idx, line, screen, trace, lib, thrown, result>>
  /\ UNCHANGED sessionVars

\* the callback of setTimeout(..., 2000) in handleScreenshot: the listener
\* is removed, the wait is rejected and the catch clause takes client.fb
onFrameTimeout(o) ==
  /\ ~ContinuationReady
  /\ frameTimer[o] = "armed"
  /\ frameTimer' = [frameTimer EXCEPT ![o] = "fired"]
  /\ frameListener' = [frameListener EXCEPT ![o] = FALSE]
  /\ framebuffer' = [framebuffer EXCEPT ![o] = fb[o]]
  /\ pc' = [pc EXCEPT ![o] = "captured"]
  /\ UNCHANGED <<pixelFormat, fb, imageBuffer>>
  /\ UNCHANGED <<idx, line, screen, trace, lib, thrown, result>>
  /\ UNCHANGED sessionVars

(***************************************************************************)
(* src/src/server.ts: hasCorruptionPatterns                                *)
(***************************************************************************)
\* the loop over the first sampleSize pixels: how many have the colour
\* (r, g, b), whatever their fourth byte
countPixels(bytes, sampleSize, r, g, b) ==
  Cardinality({ p \in 0..(sampleSize - 1) :
                  /\ bytes[4 * p + 1] = r
                  /\ bytes[4 * p + 2] = g
                  /\ bytes[4 * p + 3] = b })

\* the loop from i = 16 in steps of 16 while i < Math.min(length, 1000):
\* how often framebuffer.slice(i, i + 16) equals framebuffer.slice(0, 16); a
\* slice cut short by the end of the buffer is not equal
patternRepeats(bytes) ==
  LET len   == Len(bytes)
      limit == IF len < 1000 THEN len ELSE 1000
  IN  Cardinality({ i \in 16..(limit - 1) :
                      /\ i % 16 = 0
                      /\ i + 16 <= len
                      /\ \A k \in 1..16 : bytes[i + k] = bytes[k] })

\* blackRatio > 0.9 || whiteRatio > 0.9, the ratios being counts divided by
\* sampleSize = Math.min(1000, width * height)
mostlyOneColour(bytes, width, height) ==
  LET sampleSize  == IF 1000 < width * height THEN 1000 ELSE width * height
      blackPixels == countPixels(bytes, sampleSize, 0, 0, 0)
      whitePixels == countPixels(bytes, sampleSize, 255, 255, 255)
  IN  \/ 10 * blackPixels > 9 * sampleSize
      \/ 10 * whitePixels > 9 * sampleSize

\* hasCorruptionPatterns flags from the number of repeats of the warning
hasCorruptionPatterns_fromWarning(bytes, width, height) ==
  IF mostlyOneColour(bytes, width, height)
    THEN TRUE
    ELSE patternRepeats(bytes) > 10

\* hasCorruptionPatterns: what it returns
hasCorruptionPatterns(bytes, width, height) ==
  IF mostlyOneColour(bytes, width, height)
    THEN TRUE
    ELSE patternRepeats(bytes) > 50

\* hasCorruptionPatterns: whether it logs 'Suspicious pattern detected'
suspiciousPattern(bytes, width, height) ==
  /\ ~mostlyOneColour(bytes, width, height)
  /\ ~(patternRepeats(bytes) > 50)
  /\ patternRepeats(bytes) > 10

\* captureScreenshotWithDimensions alone, up to its first await: the check
\* of the bytes per pixel, the corruption check, whose verdict is logged, and
\* the call of the encoder
Capture(o) ==
  /\ pc[o] = "capture"
  /\ LET bytes  == fb[o].bytes
         width  == screen[o][1]
         height == screen[o][2]
     IN  IF invalidBytesPerPixel(bytes, width, height)
           THEN /\ thrown' = [thrown EXCEPT ![o] =
                              TextItem("", "Invalid bytes per pixel", <<>>, <<>>)]
                /\ pc' = [pc EXCEPT ![o] = "rejected"]
                /\ UNCHANGED <<returnValue, trace, framebuffer>>
           ELSE /\ returnValue' = [returnValue EXCEPT ![o] =
                     [flagged |-> hasCorruptionPatterns(bytes, width, height),
                      warned  |-> suspiciousPattern(bytes, width, height)]]
                /\ trace' = [trace EXCEPT ![o] =
                               @ \o <<Event("encode", 0, width, height, 80)>>]
                /\ framebuffer' = [framebuffer EXCEPT ![o] = fb[o]]
                /\ pc' = [pc EXCEPT ![o] = "encoding"]
                /\ UNCHANGED thrown
  /\ UNCHANGED <<req, clientsCreated, client, hasReceivedInitialFramebuffer,
                 setup, setupTimer>>
  /\ UNCHANGED <<pixelFormat, fb, frameTimer, frameListener, imageBuffer>>
  /\ UNCHANGED <<idx, line, screen, lib, result>>

\* handleScreenshot, lines 612 to 636 alone: the framebuffer client.fb of a
\* screen is checked and converted
Convert(o) ==
  /\ pc[o] = "convert"
  /\ LET normal == normalizeFramebuffer(fb[o], screen[o][1], screen[o][2])
     IN  IF normal.error # NoError
           THEN /\ thrown' = [thrown EXCEPT ![o] = normal.error]
                /\ pc' = [pc EXCEPT ![o] = "rejected"]
                /\ UNCHANGED framebuffer
           ELSE /\ framebuffer' = [framebuffer EXCEPT ![o] = Buffer(normal.bytes)]
                /\ pc' = [pc EXCEPT ![o] = "converted"]
                /\ UNCHANGED thrown
  /\ UNCHANGED <<pixelFormat, fb, frameTimer, frameListener, imageBuffer>>
  /\ UNCHANGED <<idx, line, screen, trace, lib, result>>
  /\ UNCHANGED sessionVars
(***************************************************************************)
(* src/src/server.ts: the dispatch of the CallTool request handler         *)
(***************************************************************************)
InputTools ==
  {"vnc_click", "vnc_move_mouse", "vnc_key_press", "vnc_type_text",
   "vnc_type_multiline"}

\* the handler never reaches createConnection: the error thrown before it
\* goes to the catch clause
callFails(o, error) ==
  /\ thrown' = [thrown EXCEPT ![o] = error]
  /\ result' = [result EXCEPT ![o] = CallToolCatch(error)]
  /\ trace' = [trace EXCEPT ![o] = @ \o <<Event("response", 0, 0, 0, 0)>>]
  /\ pc' = [pc EXCEPT ![o] = "done"]
  /\ UNCHANGED <<clientsCreated, client, lib, hasReceivedInitialFramebuffer,
                 setup, setupTimer>>

\* the o-th tools/call request, r, arrives: the switch on the name, the tool
\* handler up to its first await
CallTool(o, r) ==
  /\ ~ContinuationReady
  /\ pc[o] = "idle"
  /\ \A p \in Ops : p < o => pc[p] # "idle"
  /\ req' = [req EXCEPT ![o] = r]
  /\ CASE r.name \in InputTools ->
            /\ createConnection(o)
            /\ UNCHANGED <<thrown, result>>
       [] r.name = "vnc_screenshot" /\ r.delay > 0 /\ r.delay > 300000 ->
            callFails(o, TextItem("", "Delay cannot exceed 300000ms (5 minutes)",
                                  <<>>, <<>>))
       [] r.name = "vnc_screenshot" /\ r.delay > 0 /\ ~(r.delay > 300000) ->
            /\ trace' = [trace EXCEPT ![o] = @ \o <<wait(r.delay)>>]
            /\ pc' = [pc EXCEPT ![o] = "delay"]
            /\ UNCHANGED <<clientsCreated, client, lib,
                           hasReceivedInitialFramebuffer, setup, setupTimer,
                           thrown, result>>
       [] r.name = "vnc_screenshot" /\ ~(r.delay > 0) ->
            /\ createConnection(o)
            /\ UNCHANGED <<thrown, result>>
       [] OTHER ->
            callFails(o, TextItem("", "Unknown tool: ", <<>>, <<r.name>>))
  /\ UNCHANGED <<screen, idx, line, returnValue>>
  /\ UNCHANGED screenshotVars

(***************************************************************************)
(* Specifications                                                          *)
(***************************************************************************)
Init ==
  /\ pc = [o \in Ops |-> "idle"]
  /\ req = [o \in Ops |-> NoRequest]
  /\ returnValue = [o \in Ops |-> <<>>]
  /\ clientsCreated = 0
  /\ client = [o \in Ops |-> 0]
  /\ lib = [o \in Ops |-> "none"]
  /\ screen = [o \in Ops |-> <<0, 0>>]
  /\ hasReceivedInitialFramebuffer = [o \in Ops |-> FALSE]
  /\ setup = [o \in Ops |-> "none"]
  /\ setupTimer = [o \in Ops |-> "none"]
  /\ idx = [o \in Ops |-> 0]
  /\ line = [o \in Ops |-> 0]
  /\ trace = [o \in Ops |-> <<>>]
  /\ thrown = [o \in Ops |-> NoError]
  /\ result = [o \in Ops |-> NoResult]
  /\ pixelFormat = [o \in Ops |-> StandardRGBA]
  /\ fb = [o \in Ops |-> NoBuffer]
  /\ framebuffer = [o \in Ops |-> NoBuffer]
  /\ frameTimer = [o \in Ops |-> "none"]
  /\ frameListener = [o \in Ops |-> FALSE]
  /\ imageBuffer = [o \in Ops |-> 0]

\* the events of a session: the listeners and the timer of createConnection,
\* and the failure of the setup
Session(o) ==
  \/ onConnected(o)
  \/ onAuthenticated(o)
  \/ onFrameUpdated(o)
  \/ onError(o)
  \/ onDisconnect(o)
  \/ onConnectionTimeout(o)
  \/ connectionFailed(o)

\* the caller issues one call and no other
Alone(o) == \A p \in Ops \ {o} : pc[p] = "idle"

KeyPressRequest(key) == [NoRequest EXCEPT !.name = "vnc_key_press", !.key = key]

KeyInputs ==
  { <<"a">>,
    <<"E", "n", "t", "e", "r">>,
    <<"C", "t", "r", "l", "+", "c">>,
    <<"S", "h", "i", "f", "t", "+", "F", "1", "0">>,
    <<"C", "t", "r", "l", "+", "A", "l", "t", "+", "D", "e", "l", "e", "t", "e">> }

\* one vnc_key_press call
NextKeyPress ==
  \E o \in Ops :
    \/ \E key \in KeyInputs : Alone(o) /\ CallTool(o, KeyPressRequest(key))
    \/ Session(o)
    \/ handleKeyPress(o)

SpecKeyPress == Init /\ [][NextKeyPress]_vars

\* key strings with the '+' character as a key, with an empty token and with
\* a name that is not in the table
KeyStrings ==
  { <<"a">>,
    <<"+">>,
    <<"C", "t", "r", "l", "+", "+">>,
    <<"a", "+">>,
    <<"+", "a">>,
    <<" ">>,
    <<"F", "o", "o">>,
    <<"C", "t", "r", "l", "+", "F", "o", "o">> }

\* one vnc_key_press call with one of these strings
NextKeyStrings ==
  \E o \in Ops :
    \/ \E key \in KeyStrings : Alone(o) /\ CallTool(o, KeyPressRequest(key))
    \/ Session(o)
    \/ handleKeyPress(o)

SpecKeyStrings == Init /\ [][NextKeyStrings]_vars

ClickRequest(x, y, button, double) ==
  [NoRequest EXCEPT !.name = "vnc_click", !.x = x, !.y = y,
                    !.button = button, !.double = double]

\* button "" is a request without a button
Buttons == {"", "left", "right", "middle", "wheel"}

\* one vnc_click call
NextClick ==
  \E o \in Ops :
    \/ \E x \in -1..ScreenSize, y \in {0, ScreenSize}, b \in Buttons, d \in BOOLEAN :
         Alone(o) /\ CallTool(o, ClickRequest(x, y, b, d))
    \/ Session(o)
    \/ handleClick(o)

SpecClick == Init /\ [][NextClick]_vars

TypeTextRequest(text, enter) ==
  [NoRequest EXCEPT !.name = "vnc_type_text", !.text = text, !.enter = enter]

Texts ==
  { <<>>, <<"a">>, <<"H", "i", "!">>, <<"a", "_", "b">>, <<"(", "Z", ")">> }
    \cup { <<shiftChars[k]>> : k \in 1..Len(shiftChars) }

\* one vnc_type_text call
NextTypeText ==
  \E o \in Ops :
    \/ \E text \in Texts, enter \in BOOLEAN :
         Alone(o) /\ CallTool(o, TypeTextRequest(text, enter))
    \/ Session(o)
    \/ handleTypeText(o)
    \/ typeString(o)
    \/ typeCharacter(o)

SpecTypeText == Init /\ [][NextTypeText]_vars

MoveRequest(x, y) ==
  [NoRequest EXCEPT !.name = "vnc_move_mouse", !.x = x, !.y = y]

\* calls that run at the same time: the handler of a request starts when
\* the request arrives, whatever other calls are in progress
SessionRequests == {MoveRequest(1, 1), KeyPressRequest(<<"a">>)}

NextSession ==
  \E o \in Ops :
    \/ \E r \in SessionRequests : CallTool(o, r)
    \/ Session(o)
    \/ handleMoveMouse(o)
    \/ handleKeyPress(o)

SpecSession == Init /\ [][NextSession]_vars

TypeMultilineRequest(lines) ==
  [NoRequest EXCEPT !.name = "vnc_type_multiline", !.lines = lines]

ScreenshotRequest(delay) ==
  [NoRequest EXCEPT !.name = "vnc_screenshot", !.delay = delay]

\* calls of every tool, one after another
ToolRequests ==
  { ClickRequest(0, 0, "", FALSE),
    ClickRequest(ScreenSize, 0, "left", TRUE),
    MoveRequest(1, 1),
    KeyPressRequest(<<"C", "t", "r", "l", "+", "c">>),
    TypeTextRequest(<<"a", "!">>, TRUE),
    TypeMultilineRequest(<< <<"a">>, <<>> >>),
    ScreenshotRequest(2000),
    ScreenshotRequest(300001),
    [NoRequest EXCEPT !.name = "vnc_scroll"] }

\* the caller waits for the result of a call before it issues the next one
OneAtATime(o) ==
  /\ \A p \in Ops \ {o} : pc[p] \in {"idle", "done"}
  /\ Cardinality({p \in Ops : pc[p] # "idle"}) < MaxCalls

Tool(o) ==
  \/ handleClick(o)
  \/ handleMoveMouse(o)
  \/ handleKeyPress(o)
  \/ handleTypeText(o)
  \/ handleTypeMultiline(o)
  \/ typeString(o)
  \/ typeCharacter(o)
  \/ handleScreenshotDelay(o)
  \/ handleScreenshot(o)
  \/ onFrameTimeout(o)

Next ==
  \E o \in Ops :
    \/ \E r \in ToolRequests : OneAtATime(o) /\ CallTool(o, r)
    \/ Session(o)
    \/ Tool(o)

Spec == Init /\ [][Next]_vars

\* one call of any tool
NextOneCall ==
  \E o \in Ops :
    \/ \E r \in ToolRequests : Alone(o) /\ CallTool(o, r)
    \/ Session(o)
    \/ Tool(o)

\* timers fire, continuations run and the image encoder returns; the events
\* of the remote side may never come
SpecOneCallFair ==
  /\ Init /\ [][NextOneCall]_vars
  /\ \A o \in Ops :
       /\ WF_vars(onConnectionTimeout(o))
       /\ WF_vars(connectionFailed(o))
       /\ WF_vars(Tool(o))

MultilineInputs ==
  { <<>>,
    << <<>> >>,
    << <<"a">> >>,
    << <<"a">>, <<>> >>,
    << <<>>, <<"a", "b">> >>,
    << <<"b", "!">>, <<"a">> >>,
    << <<"a">>, <<>>, <<"b">> >> }

\* one vnc_type_multiline call
NextMultiline ==
  \E o \in Ops :
    \/ \E lines \in MultilineInputs :
         Alone(o) /\ CallTool(o, TypeMultilineRequest(lines))
    \/ Session(o)
    \/ handleTypeMultiline(o)
    \/ typeString(o)
    \/ typeCharacter(o)

SpecMultiline == Init /\ [][NextMultiline]_vars

\* the framebuffers of a screenshot call: 0 to 5 bytes per pixel, a length
\* that is no multiple of the number of pixels, two contents, or none
ScreenshotFramebuffers ==
  { Buffer([k \in 1..len |-> v]) :
      len \in {n * ScreenSize * ScreenSize : n \in 0..5}
                \cup {4 * ScreenSize * ScreenSize + 1},
      v \in {0, 255} }
    \cup {NoBuffer}

\* 'frameUpdated' with a framebuffer of any of these formats
onFrameUpdatedOfAnyFormat(o) ==
  \E newFb \in ScreenshotFramebuffers : frameUpdated(o, newFb)

\* the sizes of JPEG of a screenshot call: below, at and above 800000
ScreenshotJpegSizes == {500000, 800000, 800001, 1000000, 3200000}

\* handleScreenshot with an encoder that returns any of these sizes
handleScreenshotOfAnySize(o) == screenshotSteps(o, ScreenshotJpegSizes)

\* one vnc_screenshot call
NextScreenshot ==
  \E o \in Ops :
    \/ \E delay \in {0, 2000} : Alone(o) /\ CallTool(o, ScreenshotRequest(delay))
    \/ onConnected(o)
    \/ onAuthenticated(o)
    \/ onFrameUpdatedOfAnyFormat(o)
    \/ onError(o)
    \/ onDisconnect(o)
    \/ onConnectionTimeout(o)
    \/ connectionFailed(o)
    \/ handleScreenshotDelay(o)
    \/ handleScreenshotOfAnySize(o)
    \/ onFrameTimeout(o)

SpecScreenshot == Init /\ [][NextScreenshot]_vars

\* the pixel formats given to the conversion of a 4-byte framebuffer
ConvertFormats ==
  { StandardRGBA, BGRX, PixelFormat(8, 16, 24, 255, 255, 255),
    PixelFormat(0, 8, 16, 65280, 65280, 65280) }

ConvertInput(s, bytes, pf) ==
  [pc |-> "convert", req |-> ScreenshotRequest(0), screen |-> s,
   buffer |-> Buffer(bytes), format |-> pf]

\* len bytes, all different when step is odd and len is below 256
Pattern(len, base, step) == [k \in 1..len |-> (base + step * (k - 1)) % 256]

SomeBytes == {0, 1, 128, 255}

\* the framebuffers given to the conversion: for one pixel every buffer of 1
\* byte and some of 3 and of 4 bytes; for a row of ScreenSize pixels buffers
\* of 0 to 5 bytes per pixel and of one byte more than 4 per pixel; no buffer
ConvertInputs ==
  { ConvertInput(<<1, 1>>, <<v>>, StandardRGBA) : v \in 0..255 }
    \cup { ConvertInput(<<1, 1>>, <<a, b, c>>, StandardRGBA) :
             a \in SomeBytes, b \in SomeBytes, c \in SomeBytes }
    \cup { ConvertInput(<<1, 1>>, <<a, b, c, d>>, pf) :
             a \in SomeBytes, b \in SomeBytes, c \in SomeBytes,
             d \in SomeBytes, pf \in ConvertFormats }
    \cup { ConvertInput(<<ScreenSize, 1>>, Pattern(len, base, step), pf) :
             len \in {n * ScreenSize : n \in 0..5} \cup {4 * ScreenSize + 1},
             base \in {0, 17, 250}, step \in {1, 37}, pf \in {StandardRGBA, BGRX} }
    \cup { [ConvertInput(<<ScreenSize, 1>>, <<>>, StandardRGBA)
              EXCEPT !.buffer = NoBuffer] }

\* every framebuffer of one pixel of 2 bytes
RGB565Inputs ==
  { ConvertInput(<<1, 1>>, <<lo, hi>>, StandardRGBA) :
      lo \in 0..255, hi \in 0..255 }

\* a pure function is about to run on one of the inputs
InitWith(inputs) ==
  \E i \in inputs :
    /\ pc = [o \in Ops |-> IF o = 1 THEN i.pc ELSE "idle"]
    /\ req = [o \in Ops |-> IF o = 1 THEN i.req ELSE NoRequest]
    /\ returnValue = [o \in Ops |-> <<>>]
    /\ clientsCreated = 0
    /\ client = [o \in Ops |-> 0]
    /\ lib = [o \in Ops |-> "none"]
    /\ screen = [o \in Ops |-> IF o = 1 THEN i.screen ELSE <<0, 0>>]
    /\ hasReceivedInitialFramebuffer = [o \in Ops |-> FALSE]
    /\ setup = [o \in Ops |-> "none"]
    /\ setupTimer = [o \in Ops |-> "none"]
    /\ idx = [o \in Ops |-> 0]
    /\ line = [o \in Ops |-> 0]
    /\ trace = [o \in Ops |-> <<>>]
    /\ thrown = [o \in Ops |-> NoError]
    /\ result = [o \in Ops |-> NoResult]
    /\ pixelFormat = [o \in Ops |-> IF o = 1 THEN i.format ELSE StandardRGBA]
    /\ fb = [o \in Ops |-> IF o = 1 THEN i.buffer ELSE NoBuffer]
    /\ framebuffer = [o \in Ops |-> NoBuffer]
    /\ frameTimer = [o \in Ops |-> "none"]
    /\ frameListener = [o \in Ops |-> FALSE]
    /\ imageBuffer = [o \in Ops |-> 0]

InitConvert == InitWith(ConvertInputs)

NextConvert == \E o \in Ops : Convert(o)

SpecConvert == InitConvert /\ [][NextConvert]_vars

InitRGB565 == InitWith(RGB565Inputs)

SpecRGB565 == InitRGB565 /\ [][NextConvert]_vars

\* the frames given to captureScreenshotWithDimensions. Colours: b black
\* pixels, then w white ones, then grey ones, no two 16-byte blocks of the
\* first 1024 bytes equal; frames of 1, 2 and 10 pixels with every b and w,
\* frames of 1000, 1001 and 1200 pixels with 899 to 901 of one colour, with
\* both colours, and with black again after the first 1000 pixels. Blocks:
\* 16-byte blocks equal to the first one at the given places, different at
\* the others, with 0, 10, 11, 50, 51 and 62 repeats at the start or at the
\* end of the 62 windows, and repeats after the last window; frames that end
\* inside a window; frames with a wrong number of bytes per pixel
CaptureInputs ==
  LET Grey  == <<10, 20, 30, 255>>
      Other == <<40, 50, 60, 255>>
      Frame(n, pixel(_)) ==
        [k \in 1..(4 * n) |-> pixel(((k - 1) \div 4) + 1)[((k - 1) % 4) + 1]]
      Input(w, h, bytes) ==
        [pc |-> "capture", req |-> ScreenshotRequest(0), screen |-> <<w, h>>,
         buffer |-> Buffer(bytes), format |-> StandardRGBA]
      Colours(n, b, w) ==
        Frame(n, LAMBDA p : IF p <= b THEN <<0, 0, 0, p % 256>>
                            ELSE IF p <= b + w THEN <<255, 255, 255, p % 256>>
                            ELSE <<10, 20, 30, p % 256>>)
      Blocks(n, repeatsAt) ==
        Frame(n, LAMBDA p : IF p <= 4 \/ ((p - 1) \div 4) \in repeatsAt
                              THEN Grey ELSE Other)
      Counts == {0, 10, 11, 50, 51, 62}
  IN  { Input(t[1], 1, Colours(t[1], t[2], t[3])) :
          t \in { u \in {1, 2, 10} \X (0..10) \X (0..10) : u[2] + u[3] <= u[1] } }
      \cup { Input(s[1], s[2], Colours(s[1] * s[2], c[1], c[2])) :
               s \in {<<1000, 1>>, <<25, 40>>, <<1001, 1>>, <<40, 30>>},
               c \in {<<900, 0>>, <<901, 0>>, <<0, 900>>, <<0, 901>>,
                      <<500, 500>>, <<899, 101>>, <<0, 0>>} }
      \cup { Input(40, 30, Frame(1200, LAMBDA p :
                                  IF p <= 900 \/ p > 1000
                                    THEN <<0, 0, 0, p % 256>>
                                    ELSE <<10, 20, 30, p % 256>>)),
             Input(1000, 1, Frame(1000, LAMBDA p :
                                    IF p <= 900 THEN <<0, 0, 0, 255>> ELSE Other)) }
      \cup { Input(20, 14, Blocks(280, 1..r)) : r \in Counts }
      \cup { Input(20, 14, Blocks(280, (63 - r)..62)) : r \in Counts }
      \cup { Input(20, 14, Blocks(280, (1..50) \cup (63..69))),
             Input(20, 14, Blocks(280, {2 * j : j \in 1..31})) }
      \cup { Input(n, 1, Blocks(n, 1..70)) : n \in {4, 5, 6, 8, 16, 250, 256} }
      \cup { Input(2, 2, [k \in 1..len |-> 0]) : len \in {12, 17} }

InitCapture == InitWith(CaptureInputs)

NextCapture == \E o \in Ops : Capture(o)

SpecCapture == InitCapture /\ [][NextCapture]_vars

\* the screens and the coordinates given to validateCoordinates: a width and
\* a height from 0, unknown, to ScreenSize + 1, coordinates from -1 to
\* ScreenSize + 2
ValidateInputs ==
  { [pc |-> "validate", req |-> MoveRequest(x, y), screen |-> <<w, h>>,
     buffer |-> NoBuffer, format |-> StandardRGBA] :
      w \in 0..(ScreenSize + 1), h \in 0..(ScreenSize + 1),
      x \in -1..(ScreenSize + 2), y \in -1..(ScreenSize + 2) }

InitValidate == InitWith(ValidateInputs)

NextValidate == \E o \in Ops : Validate(o)

SpecValidate == InitValidate /\ [][NextValidate]_vars

\* the clicks and the moves of one call: points inside the screen, on its
\* edges and outside
PointerRequests ==
  { ClickRequest(x, y, b, d) :
      x \in -1..ScreenSize, y \in -1..ScreenSize, b \in {"", "right"},
      d \in BOOLEAN }
    \cup { MoveRequest(x, y) : x \in -1..ScreenSize, y \in -1..ScreenSize }

\* one vnc_click or vnc_move_mouse call
NextPointer ==
  \E o \in Ops :
    \/ \E r \in PointerRequests : Alone(o) /\ CallTool(o, r)
    \/ Session(o)
    \/ handleClick(o)
    \/ handleMoveMouse(o)

SpecPointer == Init /\ [][NextPointer]_vars

\* the delays of a screenshot: below, at and above the ends of 0..300000
Delays == {-1, 0, 1, 2000, 300000, 300001}

\* one vnc_screenshot call with any of these delays
NextDelay ==
  \E o \in Ops :
    \/ \E delay \in Delays : Alone(o) /\ CallTool(o, ScreenshotRequest(delay))
    \/ Session(o)
    \/ handleScreenshotDelay(o)
    \/ handleScreenshot(o)
    \/ onFrameTimeout(o)

SpecDelay == Init /\ [][NextDelay]_vars

\* a pure function of keyboard.ts is about to run on the string key
KeyInput(position, key) ==
  [pc |-> position, req |-> KeyPressRequest(key), screen |-> <<0, 0>>,
   buffer |-> NoBuffer, format |-> StandardRGBA]

\* the strings given to parseKeyInput: every string of '+', ' ' and 'a' up
\* to MaxKeyLen characters, and key combinations
ParseInputs ==
  { KeyInput("parse", key) :
      key \in (UNION { [1..n -> {"a", "+", " "}] : n \in 0..MaxKeyLen })
                \cup KeyInputs
                \cup { <<"C", "t", "r", "l", " ", "+", " ", "c">> } }

InitParse == InitWith(ParseInputs)

NextParse == \E o \in Ops : Parse(o)

SpecParse == InitParse /\ [][NextParse]_vars

\* the strings given to getKeysym: every name of keyMap, the characters that
\* are not in keyMap, and names that are not in keyMap
KeysymInputs ==
  { KeyInput("keysym", e[1]) : e \in keyMap }
    \cup { KeyInput("keysym", <<e[1]>>) : e \in OtherChars }
    \cup { KeyInput("keysym", <<"E", "N", "T", "E", "R">>),
           KeyInput("keysym", <<"eacute", "a">>) }

InitKeysym == InitWith(KeysymInputs)

NextKeysym == \E o \in Ops : Keysym(o)

SpecKeysym == InitKeysym /\ [][NextKeysym]_vars

\* the texts that decide the timing of typeString: of 0, 1, 10 and 11
\* letters, of 10 characters with a special one, with '-', '_' and '.', and
\* every printable ASCII character alone
TimingTexts ==
  { <<>>, <<"a">>, [k \in 1..10 |-> "a"], [k \in 1..11 |-> "a"],
    [k \in 1..10 |-> IF k = 10 THEN "!" ELSE "a"],
    <<"a", "-", "b">>, <<"a", "_">>, <<"a", ".", "b">> }
    \cup { <<Ascii[k]>> : k \in 1..Len(Ascii) }

\* one vnc_type_text call with one of these texts
NextTiming ==
  \E o \in Ops :
    \/ \E text \in TimingTexts, enter \in BOOLEAN :
         Alone(o) /\ CallTool(o, TypeTextRequest(text, enter))
    \/ Session(o)
    \/ handleTypeText(o)
    \/ typeString(o)
    \/ typeCharacter(o)

SpecTiming == Init /\ [][NextTiming]_vars

(***************************************************************************)
(* Properties                                                              *)
(***************************************************************************)
\* the positions of the events of one kind in the trace of a call
Positions(o, kind) == {k \in 1..Len(trace[o]) : trace[o][k].kind = kind}

IsPrefix(s, t) == Len(s) <= Len(t) /\ s = SubSeq(t, 1, Len(s))

IsInputEvent(e) == e.kind \in {"key", "pointer", "wait"}

\* the key events, the pointer events and the waits of a call, in order
InputEvents(o) == SelectSeq(trace[o], IsInputEvent)

IsSent(e) == e.kind \in {"key", "pointer", "frameRequest"}

\* the callback of the call has ended without an error
Succeeded(o) == pc[o] = "done" /\ thrown[o] = NoError

\* C1: a call whose session setup succeeded invokes disconnect exactly once,
\* right after the callback has returned or thrown and before the caller
\* gets the result or the error; while the callback has not ended there is
\* no disconnect.
DisconnectOnEveryExit ==
  \A o \in Ops :
    LET tr == trace[o]
        n  == Len(tr)
    IN  /\ (pc[o] = "done" /\ setup[o] = "resolved") =>
             /\ Cardinality(Positions(o, "disconnect")) = 1
             /\ Cardinality(Positions(o, "callback")) = 1
             /\ n >= 4
             /\ tr[n].kind = "response"
             /\ tr[n - 1] = Event("disconnect", client[o], 0, 0, 0)
             /\ tr[n - 2].kind = (IF thrown[o] = NoError THEN "returned" ELSE "threw")
             /\ \A k \in Positions(o, "callback") : k < n - 2
             /\ lib[o] \notin {"connecting", "connected", "authenticated"}
        /\ pc[o] # "done" => Positions(o, "disconnect") = {}

\* C1: one call has ended with a callback that threw and another one with a
\* callback that returned
DisconnectOnEveryExitWitness ==
  \E o, p \in Ops :
    /\ pc[o] = "done" /\ setup[o] = "resolved" /\ thrown[o] # NoError
    /\ pc[p] = "done" /\ setup[p] = "resolved" /\ thrown[p] = NoError

\* C2: the callback never starts before the first frameUpdated event: in the
\* trace of every call a frame request comes after the connect, the first
\* frame after a frame request and the start of the callback after the
\* first frame.
CallbackAfterFirstFrame ==
  \A o \in Ops :
    LET tr == trace[o]
    IN  /\ \A k \in Positions(o, "frameRequest") :
             \E a \in Positions(o, "connect") : a < k
        /\ \A k \in Positions(o, "firstFrame") :
             \E b \in Positions(o, "frameRequest") : b < k
        /\ \A k \in Positions(o, "callback") :
             /\ \E c \in Positions(o, "firstFrame") : c < k
             /\ hasReceivedInitialFramebuffer[o]
        /\ \A k \in 1..Len(tr) : tr[k].kind = "connect" <=> k = 1 /\ tr[k].client # 0

\* C2: a callback is running while the other call is still waiting for its
\* first frame
CallbackAfterFirstFrameWitness ==
  \E o, p \in Ops :
    /\ pc[o] = "key_down" /\ Positions(o, "callback") # {}
    /\ pc[p] = "setup" /\ lib[p] = "authenticated"

\* C3: a transport error or the expiry of the 15 s timer before the first
\* frame rejects the setup; a call whose setup was rejected never starts its
\* callback and ends with the connection error as its error.
SetupFailureIsConnectionError ==
  /\ [](\A o \in Ops :
          setup[o] \in {"error", "timeout"} =>
            /\ Positions(o, "callback") = {}
            /\ pc[o] \in {"failed", "done"}
            /\ pc[o] = "done" =>
                 /\ thrown[o].msg = (IF setup[o] = "timeout"
                                       THEN "VNC connection timeout"
                                       ELSE "VNC connection error: ")
                 /\ result[o].kind = "response"
                 /\ result[o].content =
                      <<TextItem("Error: ", thrown[o].msg, <<>>, <<>>)>>)
  /\ [][\A o \in Ops :
          /\ (setup[o] = "pending" /\ lib[o] # "error" /\ lib'[o] = "error") =>
               setup'[o] = "error" /\ pc'[o] = "failed"
          /\ (setup[o] = "pending" /\ setupTimer[o] = "armed"
                /\ setupTimer'[o] = "fired") =>
               setup'[o] = "timeout" /\ pc'[o] = "failed"
          /\ pc[o] = "failed" => pc'[o] = "done"]_vars

\* C3: one call has failed by the timer and another one by a transport error
SetupFailureIsConnectionErrorWitness ==
  \E o, p \in Ops :
    /\ pc[o] = "done" /\ setup[o] = "timeout"
    /\ pc[p] = "done" /\ setup[p] = "error"

\* C4: when the remote side has closed the connection before the first
\* frame, the setup is no longer pending.
DisconnectFailsSetup ==
  \A o \in Ops : lib[o] = "closed" => setup[o] # "pending"

\* C5: every call has a client of its own, every event a call sends is sent
\* on that client, and nothing is sent on it after the call has ended.
OwnClientUntilTheEnd ==
  /\ \A o, p \in Ops :
       (o # p /\ client[o] # 0 /\ client[p] # 0) => client[o] # client[p]
  /\ \A o \in Ops : \A k \in 1..Len(trace[o]) :
       /\ IsSent(trace[o][k]) => trace[o][k].client = client[o]
       /\ trace[o][k].kind = "response" =>
            \A j \in (k + 1)..Len(trace[o]) : ~IsSent(trace[o][j])

\* the messages of the errors a tool call can raise
ErrorMessages ==
  { "VNC connection timeout", "VNC connection error: ",
    "Coordinates are outside screen bounds", "library exception",
    "VNC buffer error typing character. This may be a temporary issue - please retry the operation.",
    "Delay cannot exceed 300000ms (5 minutes)", "Unknown tool: ",
    "Unsupported pixel format: bytes per pixel", "No framebuffer available",
    "Invalid screen dimensions", "Framebuffer size mismatch",
    "Invalid bytes per pixel" }

\* C6: every call that has ended gave the RPC layer a result and not an
\* exception; when an error was raised, the result holds one text item,
\* "Error: " followed by the message of the error, and this is so for the
\* calls that follow a failed call as well.
ErrorsBecomeTextResults ==
  \A o \in Ops :
    /\ pc[o] = "done" =>
         /\ result[o].kind = "response"
         /\ thrown[o] # NoError =>
              /\ thrown[o].msg \in ErrorMessages
              /\ Len(result[o].content) = 1
              /\ result[o].content[1].type = "text"
              /\ result[o].content[1].prefix = "Error: "
              /\ result[o].content[1].msg = thrown[o].msg
              /\ result[o].content[1].nums = thrown[o].nums
              /\ result[o].content[1].str = thrown[o].str
         /\ thrown[o] = NoError =>
              /\ Len(result[o].content) >= 1
              /\ result[o].content[1].type = "text"
              /\ result[o].content[1].prefix = ""
    /\ pc[o] # "done" => result[o] = NoResult /\ thrown[o] = NoError

\* C6: a screenshot has succeeded after a call that failed
ErrorsBecomeTextResultsWitness ==
  \E p, o \in Ops :
    /\ p < o
    /\ pc[p] = "done" /\ thrown[p] # NoError
    /\ Succeeded(o) /\ req[o].name = "vnc_screenshot"

\* the key events and waits of a key combination: modifiers pressed in the
\* given order, the main key pressed and released, the modifiers released
\* in the reverse order
ExpectedKeyPress(c, modifierCodes, keyCode) ==
  LET n == Len(modifierCodes)
  IN  IF n = 0
        THEN <<keyEvent(c, keyCode, TRUE), wait(50), keyEvent(c, keyCode, FALSE)>>
        ELSE [j \in 1..(2 * n) |->
                IF j % 2 = 1
                  THEN keyEvent(c, modifierCodes[(j + 1) \div 2], TRUE)
                  ELSE wait(10)]
             \o <<keyEvent(c, keyCode, TRUE), wait(50),
                  keyEvent(c, keyCode, FALSE), wait(10)>>
             \o [j \in 1..(2 * n) |->
                   IF j % 2 = 1
                     THEN keyEvent(c, modifierCodes[n - ((j - 1) \div 2)], FALSE)
                     ELSE wait(10)]

\* C7: key_press sends press m1 .. press mn, press k, release k, release
\* mn .. release m1 with its waits of 10 and 50 ms, 2n+2 key events in all;
\* at every moment what it has sent is the beginning of that sequence.
KeyPressOrder ==
  \A o \in Ops :
    req[o].name = "vnc_key_press" =>
      LET parsed   == parseKeyInput(req[o].key)
          codes    == [k \in 1..Len(parsed.modifiers) |->
                         getKeysym(parsed.modifiers[k])]
          expected == ExpectedKeyPress(client[o], codes, getKeysym(parsed.key))
      IN  /\ IsPrefix(InputEvents(o), expected)
          /\ Succeeded(o) =>
               /\ InputEvents(o) = expected
               /\ Cardinality(Positions(o, "key")) = 2 * Len(parsed.modifiers) + 2

\* C7: Ctrl+Alt+Delete has been sent in full
KeyPressOrderWitness ==
  \E o \in Ops :
    /\ Succeeded(o)
    /\ req[o].key = <<"C", "t", "r", "l", "+", "A", "l", "t", "+", "D", "e", "l",
                      "e", "t", "e">>
    /\ Cardinality(Positions(o, "key")) = 6

\* the keys of a US keyboard that give a character with Shift: the
\* character and the code of the key
BaseKeys ==
  { <<"~", 96>>, <<"!", 49>>, <<"@", 50>>, <<"#", 51>>, <<"$", 52>>,
    <<"%", 53>>, <<"^", 54>>, <<"&", 55>>, <<"*", 56>>, <<"(", 57>>,
    <<")", 48>>, <<"_", 45>>, <<"+", 61>>, <<"{", 91>>, <<"}", 93>>,
    <<"|", 92>>, <<":", 59>>, <<"\"", 39>>, <<"<", 44>>, <<">", 46>>,
    <<"?", 47>> }

\* the key events and waits of one typed character
ExpectedCharacter(c, char, hold, gap) ==
  IF \E b \in BaseKeys : b[1] = char
    THEN LET u == (CHOOSE b \in BaseKeys : b[1] = char)[2]
         IN  <<keyEvent(c, 65505, TRUE), wait(10), keyEvent(c, u, TRUE),
               wait(hold), keyEvent(c, u, FALSE), wait(10),
               keyEvent(c, 65505, FALSE), wait(gap)>>
    ELSE <<keyEvent(c, charCode(char), TRUE), wait(hold),
           keyEvent(c, charCode(char), FALSE), wait(gap)>>

RECURSIVE ExpectedText(_, _, _, _)
ExpectedText(c, text, hold, gap) ==
  IF text = <<>>
    THEN <<>>
    ELSE ExpectedCharacter(c, Head(text), hold, gap)
           \o ExpectedText(c, Tail(text), hold, gap)

ExpectedEnter(c) == <<keyEvent(c, 65293, TRUE), wait(50), keyEvent(c, 65293, FALSE)>>

\* C8: a character that needs Shift is typed as press Shift, 10 ms, press
\* and release of its base key, 10 ms, release Shift; any other character
\* as press and release of its own key, without a Shift event.
ShiftedCharacters ==
  \A o \in Ops :
    req[o].name = "vnc_type_text" =>
      LET text     == req[o].text
          expected ==
            ExpectedText(client[o], text, keyHoldTime(text), betweenKeyDelay(text))
              \o (IF req[o].enter THEN ExpectedEnter(client[o]) ELSE <<>>)
      IN  /\ IsPrefix(InputEvents(o), expected)
          /\ Succeeded(o) => InputEvents(o) = expected

\* C8: "Hi!" has been typed in full: two plain characters and one with Shift
ShiftedCharactersWitness ==
  \E o \in Ops :
    /\ Succeeded(o)
    /\ req[o].text = <<"H", "i", "!">>
    /\ Cardinality(Positions(o, "key")) = 8

\* the mask of a button: left 1, middle 2, right 4, left when none is given
ExpectedMask(button) ==
  IF button = "right" THEN 4 ELSE IF button = "middle" THEN 2 ELSE 1

NamedButtons == {"", "left", "middle", "right"}

\* C9: a single click sends the pointer event with the mask of the button at
\* (x, y), holds 100 ms and sends the pointer event with mask 0 at (x, y),
\* and no other pointer event.
SingleClick ==
  \A o \in Ops :
    (req[o].name = "vnc_click" /\ ~req[o].double
       /\ req[o].button \in NamedButtons) =>
      LET c        == client[o]
          x        == req[o].x
          y        == req[o].y
          expected == <<pointerEvent(c, x, y, ExpectedMask(req[o].button)),
                        wait(100), pointerEvent(c, x, y, 0)>>
      IN  /\ IsPrefix(InputEvents(o), expected)
          /\ Succeeded(o) =>
               /\ InputEvents(o) = expected
               /\ Cardinality(Positions(o, "pointer")) = 2

\* C9: a single click of the right button inside the known screen has been
\* sent
SingleClickWitness ==
  \E o \in Ops :
    /\ Succeeded(o)
    /\ req[o].name = "vnc_click" /\ ~req[o].double /\ req[o].button = "right"
    /\ screen[o] = <<ScreenSize, ScreenSize>>
    /\ Cardinality(Positions(o, "pointer")) = 2

\* C10: a double click sends four pointer events at (x, y) with the masks
\* mask, 0, mask, 0 and 50 ms between one and the next.
DoubleClick ==
  \A o \in Ops :
    (req[o].name = "vnc_click" /\ req[o].double
       /\ req[o].button \in NamedButtons) =>
      LET c        == client[o]
          x        == req[o].x
          y        == req[o].y
          mask     == ExpectedMask(req[o].button)
          expected == <<pointerEvent(c, x, y, mask), wait(50),
                        pointerEvent(c, x, y, 0), wait(50),
                        pointerEvent(c, x, y, mask), wait(50),
                        pointerEvent(c, x, y, 0)>>
      IN  /\ IsPrefix(InputEvents(o), expected)
          /\ Succeeded(o) =>
               /\ InputEvents(o) = expected
               /\ Cardinality(Positions(o, "pointer")) = 4

\* C10: a double click of the middle button inside the known screen has
\* been sent
DoubleClickWitness ==
  \E o \in Ops :
    /\ Succeeded(o)
    /\ req[o].name = "vnc_click" /\ req[o].double /\ req[o].button = "middle"
    /\ screen[o] = <<ScreenSize, ScreenSize>>
    /\ Cardinality(Positions(o, "pointer")) = 4

\* the key events and waits of the lines from line k on: the characters of
\* a line, Enter held 50 ms, a pause of 100 ms
RECURSIVE ExpectedLines(_, _, _)
ExpectedLines(c, lines, k) ==
  IF k > Len(lines)
    THEN <<>>
    ELSE ExpectedText(c, lines[k], keyHoldTime(lines[k]),
                      betweenKeyDelay(lines[k]))
           \o ExpectedEnter(c) \o <<wait(100)>>
           \o ExpectedLines(c, lines, k + 1)

IsEnterPress(e) == e.kind = "key" /\ e.p1 = 65293 /\ e.p2 = 1

IsEnterRelease(e) == e.kind = "key" /\ e.p1 = 65293 /\ e.p2 = 0

\* C11: type_multiline types the lines in their order, each followed by
\* press Enter, 50 ms, release Enter and a pause of 100 ms, also the last
\* line and the empty lines: n lines give n Enter pairs, no line gives no
\* key event.
MultilineOrder ==
  \A o \in Ops :
    req[o].name = "vnc_type_multiline" =>
      LET expected == ExpectedLines(client[o], req[o].lines, 1)
      IN  /\ IsPrefix(InputEvents(o), expected)
          /\ Succeeded(o) =>
               /\ InputEvents(o) = expected
               /\ Len(SelectSeq(trace[o], IsEnterPress)) = Len(req[o].lines)
               /\ Len(SelectSeq(trace[o], IsEnterRelease)) = Len(req[o].lines)
               /\ req[o].lines = <<>> => Positions(o, "key") = {}

\* C11: three lines, the second one empty, have been typed in full
MultilineOrderWitness ==
  \E o \in Ops :
    /\ Succeeded(o)
    /\ req[o].lines = << <<"a">>, <<>>, <<"b">> >>
    /\ Len(SelectSeq(trace[o], IsEnterPress)) = 3


RetryMessage ==
  "VNC buffer error typing character. This may be a temporary issue - please retry the operation."

\* the number of events the first k characters of a text take
TypedLength(c, text, k) ==
  Len(ExpectedText(c, SubSeq(text, 1, k), keyHoldTime(text), betweenKeyDelay(text)))

\* C12: when a send fails while a character of a text is typed, the call
\* ends at once with the error that asks to retry and names the character:
\* what was sent stops inside the text, no Enter is sent, and no key event is
\* sent once the call has ended.
TypingFailureAborts ==
  /\ [](\A o \in Ops :
          (req[o].name = "vnc_type_text" /\ pc[o] = "done"
             /\ setup[o] = "resolved") =>
            LET c     == client[o]
                text  == req[o].text
                n     == Len(trace[o])
                sent  == Len(InputEvents(o))
                inText == sent < TypedLength(c, text, Len(text))
            IN  /\ inText =>
                     /\ thrown[o].msg = RetryMessage
                     /\ thrown[o].str =
                          <<text[CHOOSE k \in 1..Len(text) :
                                   /\ TypedLength(c, text, k) > sent
                                   /\ TypedLength(c, text, k - 1) <= sent]>>
                     /\ result[o].content =
                          <<TextItem("Error: ", RetryMessage, <<>>, thrown[o].str)>>
                     /\ SelectSeq(trace[o], IsEnterPress) = <<>>
                /\ thrown[o].msg = RetryMessage => inText
                /\ thrown[o] # NoError =>
                     /\ trace[o][n - 2].kind = "threw"
                     /\ trace[o][n - 1].kind = "disconnect"
                     /\ trace[o][n].kind = "response")
  /\ [][\A o \in Ops : pc[o] = "done" => InputEvents(o)' = InputEvents(o)]_vars

\* C12: the press of the key 1 for the character ! of "Hi!" has failed after
\* Shift was pressed
TypingFailureAbortsWitness ==
  \E o \in Ops :
    /\ pc[o] = "done"
    /\ req[o].text = <<"H", "i", "!">> /\ req[o].enter
    /\ thrown[o].msg = RetryMessage /\ thrown[o].str = <<"!">>
    /\ Cardinality(Positions(o, "key")) = 5

\* the result of the call holds an image
HasImage(o) ==
  \E k \in 1..Len(result[o].content) : result[o].content[k].type = "image"

\* the lengths of framebuffer the conversion accepts for the screen of o
SupportedLength(o, len) ==
  \E n \in 1..4 : len = n * (screen[o][1] * screen[o][2])

\* C13: when the 2000 ms timer of a screenshot fires before the frame-update
\* event, the call goes on with client.fb: it ends with an image unless the
\* buffer has no supported format or the encoder fails, and with 'No
\* framebuffer available' only when client.fb is empty; when the event
\* arrives first, the buffer delivered with it is the one that is used.
FrameTimeoutFallsBack ==
  /\ [](\A o \in Ops :
          req[o].name = "vnc_screenshot" =>
            /\ (frameTimer[o] \in {"fired", "cleared"} /\ pc[o] = "captured") =>
                 framebuffer[o] = fb[o]
            /\ (frameTimer[o] = "fired" /\ pc[o] = "done") =>
                 /\ thrown[o].msg # "Frame update timeout"
                 /\ thrown[o].msg = "No framebuffer available" <=> ~fb[o].present
                 /\ (fb[o].present /\ SupportedLength(o, Len(fb[o].bytes))
                       /\ thrown[o] # LibraryError) =>
                      Succeeded(o) /\ HasImage(o)
            /\ (thrown[o].msg = "No framebuffer available"
                  /\ frameTimer[o] = "cleared") => ~fb[o].present)
  /\ [][\A o \in Ops, newFb \in ScreenshotFramebuffers :
          (frameListener[o] /\ frameUpdated(o, newFb)) =>
            /\ framebuffer'[o] = newFb
            /\ frameTimer'[o] = "cleared"
            /\ pc'[o] = "captured"]_vars
  /\ [][\A o \in Ops :
          (frameTimer[o] = "armed" /\ frameTimer'[o] = "fired") =>
            /\ framebuffer'[o] = fb[o]
            /\ fb'[o] = fb[o]
            /\ ~frameListener'[o]]_vars

\* C13: the timer has fired and the call has returned an image made of the
\* buffer of the first frame
FrameTimeoutFallsBackWitness ==
  \E o \in Ops :
    /\ frameTimer[o] = "fired"
    /\ Succeeded(o) /\ HasImage(o)
    /\ fb[o] = Buffer([k \in 1..(2 * ScreenSize * ScreenSize) |-> 255])

\* C14: a framebuffer of 4 bytes per pixel is handed on unchanged only when
\* the pixel format is R = 0, G = 8, B = 16 with maxima 255; for every other
\* format each pixel handed on is (R, G, B, 255), extracted by the shifts of
\* the format.
PixelFormatHonoured ==
  \A o \in Ops :
    LET width  == screen[o][1]
        height == screen[o][2]
    IN  (fb[o].present /\ Len(fb[o].bytes) = 4 * (width * height)
           /\ pc[o] \in {"converted", "rejected"}) =>
          /\ pc[o] = "converted"
          /\ framebuffer[o].bytes =
               IF needsPixelFormatConversion(pixelFormat[o])
                 THEN convertBGRXToRGBA(fb[o].bytes, width, height, pixelFormat[o])
                 ELSE fb[o].bytes

\* the call has handed a frame to the image encoder
Encoded(o) == Positions(o, "encode") # {}

\* C15: the framebuffer a screenshot hands to the image encoder has exactly
\* width * height * 4 bytes, and the encoder is told that width and height;
\* a captured buffer of 1, 2, 3 or 4 bytes per pixel reaches the encoder, a
\* buffer of any other length does not.
EncoderGetsRGBA ==
  \A o \in Ops :
    req[o].name = "vnc_screenshot" =>
      LET width  == screen[o][1]
          height == screen[o][2]
          first  == CHOOSE k \in Positions(o, "encode") :
                      \A j \in Positions(o, "encode") : k <= j
      IN  /\ pc[o] \in {"encoding", "resizing"} =>
               /\ framebuffer[o].present
               /\ Len(framebuffer[o].bytes) = width * height * 4
          /\ Encoded(o) =>
               /\ trace[o][first].p1 = width /\ trace[o][first].p2 = height
               /\ fb[o].present /\ SupportedLength(o, Len(fb[o].bytes))
          /\ pc[o] \in {"encoding", "resizing"} => Encoded(o)
          /\ (pc[o] = "done" /\ frameTimer[o] \in {"fired", "cleared"}
                /\ fb[o].present /\ SupportedLength(o, Len(fb[o].bytes))) =>
               Encoded(o)

\* C15: a framebuffer of 3 bytes per pixel has reached the encoder as a
\* buffer of 4 bytes per pixel
EncoderGetsRGBAWitness ==
  \E o \in Ops :
    /\ pc[o] = "encoding"
    /\ Len(fb[o].bytes) = 3 * (screen[o][1] * screen[o][2])
    /\ Len(framebuffer[o].bytes) = 4 * (screen[o][1] * screen[o][2])
    /\ screen[o] = <<ScreenSize, ScreenSize>>

UnsupportedFormat(o) ==
  TextItem("", "Unsupported pixel format: bytes per pixel",
           <<Len(fb[o].bytes), screen[o][1] * screen[o][2]>>, <<>>)

\* C16: a captured framebuffer whose length is not 1, 2, 3 or 4 times
\* width * height makes the screenshot fail with the unsupported-format
\* error: nothing is handed to the encoder, the result holds the error text
\* and no image, and the session is disconnected.
UnsupportedFormatFails ==
  \A o \in Ops :
    (req[o].name = "vnc_screenshot" /\ frameTimer[o] \in {"fired", "cleared"}
       /\ fb[o].present /\ ~SupportedLength(o, Len(fb[o].bytes))) =>
      /\ ~Encoded(o)
      /\ pc[o] \in {"captured", "failed", "done"}
      /\ pc[o] \in {"failed", "done"} => thrown[o] = UnsupportedFormat(o)
      /\ pc[o] = "done" =>
           /\ result[o].content =
                <<[UnsupportedFormat(o) EXCEPT !.prefix = "Error: "]>>
           /\ ~HasImage(o)
           /\ Cardinality(Positions(o, "disconnect")) = 1

\* C16: a framebuffer of one byte more than 4 bytes per pixel has been
\* refused and the session disconnected
UnsupportedFormatFailsWitness ==
  \E o \in Ops :
    /\ pc[o] = "done"
    /\ thrown[o].msg = "Unsupported pixel format: bytes per pixel"
    /\ Len(fb[o].bytes) = 4 * ScreenSize * ScreenSize + 1
    /\ Positions(o, "disconnect") # {}

\* C17: a pixel of 2 bytes, lo then hi, is the 16-bit value p = lo + 256 * hi
\* and becomes R = ((p >> 11) & 31) * 255 / 31, G = ((p >> 5) & 63) * 255 / 63,
\* B = (p & 31) * 255 / 31, each without its fraction and within 0..255, and
\* A = 255, for every p in 0..65535; p = 0xF800 becomes (255, 0, 0, 255).
RGB565Conversion ==
  \A o \in Ops :
    (pc[o] \in {"converted", "rejected"} /\ screen[o] = <<1, 1>>
       /\ Len(fb[o].bytes) = 2) =>
      LET lo == fb[o].bytes[1]
          hi == fb[o].bytes[2]
          r5 == hi \div 8
          g6 == (hi % 8) * 8 + (lo \div 32)
          b5 == lo % 32
          out == framebuffer[o].bytes
      IN  /\ pc[o] = "converted"
          /\ out = <<(r5 * 255) \div 31, (g6 * 255) \div 63,
                     (b5 * 255) \div 31, 255>>
          /\ \A k \in 1..4 : out[k] \in 0..255
          /\ (lo = 0 /\ hi = 248) => out = <<255, 0, 0, 255>>
          /\ (lo = 255 /\ hi = 255) => out = <<255, 255, 255, 255>>
          /\ (lo = 1 /\ hi = 0) => out = <<0, 0, 8, 255>>

\* C17: the pixel 0xF800 has been converted
RGB565ConversionWitness ==
  \E o \in Ops :
    /\ pc[o] = "converted"
    /\ fb[o].bytes = <<0, 248>>
    /\ framebuffer[o].bytes = <<255, 0, 0, 255>>

\* the pixel i, counted from 0, of a buffer of n bytes per pixel
PixelOf(bytes, n, i) == SubSeq(bytes, n * i + 1, n * i + n)

\* C18: of a framebuffer of 1 byte per pixel the pixel v becomes
\* (v, v, v, 255), of a framebuffer of 3 bytes per pixel the pixel
\* (b0, b1, b2) becomes (b0, b1, b2, 255), and the pixels keep their order.
GrayAndRGBConversion ==
  \A o \in Ops :
    LET pixelCount == screen[o][1] * screen[o][2]
        src        == fb[o].bytes
        out        == framebuffer[o].bytes
    IN  /\ (pc[o] \in {"converted", "rejected"} /\ fb[o].present
              /\ pixelCount > 0 /\ Len(src) = pixelCount) =>
             /\ pc[o] = "converted"
             /\ Len(out) = 4 * pixelCount
             /\ \A i \in 0..(pixelCount - 1) :
                  PixelOf(out, 4, i) = <<src[i + 1], src[i + 1], src[i + 1], 255>>
        /\ (pc[o] \in {"converted", "rejected"} /\ fb[o].present
              /\ pixelCount > 0 /\ Len(src) = 3 * pixelCount) =>
             /\ pc[o] = "converted"
             /\ Len(out) = 4 * pixelCount
             /\ \A i \in 0..(pixelCount - 1) :
                  PixelOf(out, 4, i) = PixelOf(src, 3, i) \o <<255>>

\* C18: a row of pixels of 3 bytes, all bytes different, has been converted
GrayAndRGBConversionWitness ==
  \E o \in Ops :
    /\ pc[o] = "converted"
    /\ screen[o] = <<ScreenSize, 1>>
    /\ fb[o].bytes = Pattern(3 * ScreenSize, 17, 37)
    /\ PixelOf(framebuffer[o].bytes, 4, ScreenSize - 1) =
         <<(17 + 37 * (3 * ScreenSize - 3)) % 256,
           (17 + 37 * (3 * ScreenSize - 2)) % 256,
           (17 + 37 * (3 * ScreenSize - 1)) % 256, 255>>

\* C19: validateCoordinates accepts every point while the width or the
\* height of the screen is 0; otherwise it accepts exactly the points with
\* 0 <= x < width and 0 <= y < height, so x = width and y = height are
\* refused, and the refusal names the point and the range (0, 0) to
\* (width - 1, height - 1).
CoordinateBounds ==
  \A o \in Ops :
    pc[o] \in {"valid", "invalid"} =>
      LET width  == screen[o][1]
          height == screen[o][2]
          x      == req[o].x
          y      == req[o].y
      IN  /\ (width = 0 \/ height = 0) => pc[o] = "valid"
          /\ (width > 0 /\ height > 0) =>
               (pc[o] = "valid" <=> (0 <= x /\ x < width /\ 0 <= y /\ y < height))
          /\ (width > 0 /\ height > 0 /\ (x = width \/ y = height)) =>
               pc[o] = "invalid"
          /\ pc[o] = "valid" => thrown[o] = NoError
          /\ pc[o] = "invalid" =>
               thrown[o] = TextItem("", "Coordinates are outside screen bounds",
                                    <<x, y, 0, 0, width - 1, height - 1>>, <<>>)

\* C19: the point (width, 0) of a screen has been refused
CoordinateBoundsWitness ==
  \E o \in Ops :
    /\ pc[o] = "invalid"
    /\ screen[o] = <<ScreenSize, ScreenSize + 1>>
    /\ req[o].x = ScreenSize /\ req[o].y = 0
    /\ thrown[o].nums = <<ScreenSize, 0, 0, 0, ScreenSize - 1, ScreenSize>>

\* the callback of the call has started on a screen of known size and the
\* point of the request is not on it
OutsideScreen(o) ==
  /\ Positions(o, "callback") # {}
  /\ screen[o][1] > 0 /\ screen[o][2] > 0
  /\ ~(/\ 0 <= req[o].x /\ req[o].x < screen[o][1]
       /\ 0 <= req[o].y /\ req[o].y < screen[o][2])

BoundsError(o) ==
  TextItem("", "Coordinates are outside screen bounds",
           <<req[o].x, req[o].y, 0, 0, screen[o][1] - 1, screen[o][2] - 1>>,
           <<>>)

\* C20: a click or a move to a point outside the known screen sends no
\* pointer event, disconnects its session once, and its result is the error
\* text that names the point and the bounds of the screen.
InvalidCoordinatesSendNothing ==
  \A o \in Ops :
    (req[o].name \in {"vnc_click", "vnc_move_mouse"} /\ OutsideScreen(o)) =>
      /\ Positions(o, "pointer") = {}
      /\ thrown[o] = BoundsError(o)
      /\ pc[o] \in {"failed", "done"}
      /\ pc[o] = "done" =>
           /\ Cardinality(Positions(o, "disconnect")) = 1
           /\ result[o] =
                [kind    |-> "response",
                 content |-> <<[BoundsError(o) EXCEPT !.prefix = "Error: "]>>]

\* C20: a move to the point (ScreenSize, -1) has been refused
InvalidCoordinatesSendNothingWitness ==
  \E o \in Ops :
    /\ pc[o] = "done"
    /\ req[o] = MoveRequest(ScreenSize, -1)
    /\ OutsideScreen(o)
    /\ Positions(o, "disconnect") # {}
    /\ result[o].content[1].prefix = "Error: "

DelayError == "Delay cannot exceed 300000ms (5 minutes)"

\* C21: a screenshot whose delay is below 0 or above 300000 is rejected with
\* the delay error before a session is opened, and a delay within 0..300000
\* is never rejected for its delay.
DelayRange ==
  \A o \in Ops :
    (req[o].name = "vnc_screenshot" /\ pc[o] # "idle") =>
      IF req[o].delay < 0 \/ req[o].delay > 300000
        THEN /\ pc[o] = "done"
             /\ thrown[o].msg = DelayError
             /\ Positions(o, "connect") = {}
        ELSE thrown[o].msg # DelayError

WithDelayText == {"Screenshot captured (after delay)",
                  "Screenshot captured (resized from) (after delay)"}

WithoutDelayText == {"Screenshot captured", "Screenshot captured (resized from)"}

\* C22: a screenshot with an accepted delay d > 0 first waits d ms: the wait
\* is the first thing the call does, before the session is opened and before
\* any frame is requested, and the text of the result says 'after d ms
\* delay'; with delay 0 the call waits at no point and the text has no such
\* note.
DelayBeforeSession ==
  \A o \in Ops :
    (req[o].name = "vnc_screenshot" /\ pc[o] # "idle") =>
      LET d == req[o].delay
      IN  /\ (0 < d /\ d <= 300000) =>
               /\ trace[o][1] = wait(d)
               /\ Positions(o, "wait") = {1}
               /\ pc[o] = "delay" => (Len(trace[o]) = 1 /\ lib[o] = "none")
               /\ Succeeded(o) =>
                    /\ result[o].content[1].msg \in WithDelayText
                    /\ result[o].content[1].nums[5] = d
          /\ d = 0 =>
               /\ Positions(o, "wait") = {}
               /\ pc[o] # "delay"
               /\ Succeeded(o) => result[o].content[1].msg \in WithoutDelayText

\* C22: a screenshot with a delay of 2000 ms has returned its image
DelayBeforeSessionWitness ==
  \E o \in Ops :
    /\ Succeeded(o)
    /\ req[o].delay = 2000
    /\ trace[o][1] = wait(2000)
    /\ Positions(o, "connect") # {}
    /\ result[o].content[1].msg = "Screenshot captured (after delay)"

\* the image items of the result of a call
Images(o) ==
  SelectSeq(result[o].content, LAMBDA item : item.type = "image")

\* C23: the image a screenshot returns has at most 800,000 bytes, whatever
\* the sizes of the first and of the second JPEG.
ImageWithinLimit ==
  \A o \in Ops :
    (req[o].name = "vnc_screenshot" /\ Succeeded(o)) =>
      \A k \in 1..Len(Images(o)) : Images(o)[k].data <= 800000

\* f is floor(dim * sqrt(800000 / size))
IsFloorScaled(f, dim, size) ==
  /\ f * f * size <= dim * dim * 800000
  /\ (f + 1) * (f + 1) * size > dim * dim * 800000

\* the k-th frame handed to the encoder by the call
EncodeEvent(o, k) ==
  trace[o][CHOOSE p \in Positions(o, "encode") :
             Cardinality({j \in Positions(o, "encode") : j <= p}) = k]

ResizedText == {"Screenshot captured (resized from)",
                "Screenshot captured (resized from) (after delay)"}

\* C24: the first JPEG is made of the whole frame at quality 80; a second
\* one is made exactly when the first has more than 800,000 bytes, once, of
\* the same raw buffer at quality 75, with width and height reduced to
\* floor(dim * sqrt(800000 / firstSize)), below the original; otherwise the
\* first JPEG is returned with the original dimensions. The text reports the
\* dimensions of the returned image and says 'resized from' exactly when the
\* second JPEG was made.
ResizeOnce ==
  /\ [](\A o \in Ops :
          (req[o].name = "vnc_screenshot" /\ Encoded(o)) =>
            LET width   == screen[o][1]
                height  == screen[o][2]
                encodes == Cardinality(Positions(o, "encode"))
                first   == EncodeEvent(o, 1)
                second  == EncodeEvent(o, 2)
                text    == result[o].content[1]
            IN  /\ encodes \in {1, 2}
                /\ first.p1 = width /\ first.p2 = height /\ first.p3 = 80
                /\ pc[o] = "encoding" => encodes = 1
                /\ pc[o] = "resizing" => encodes = 2
                /\ encodes = 2 =>
                     /\ imageBuffer[o] > 800000
                     /\ second.p3 = 75
                     /\ IsFloorScaled(second.p1, width, imageBuffer[o])
                     /\ IsFloorScaled(second.p2, height, imageBuffer[o])
                     /\ second.p1 < width /\ second.p2 < height
                     /\ Len(framebuffer[o].bytes) = width * height * 4
                /\ (Succeeded(o) /\ encodes = 1) =>
                     /\ Images(o)[1].data <= 800000
                     /\ text.nums[1] = width /\ text.nums[2] = height
                     /\ text.msg \notin ResizedText
                /\ (Succeeded(o) /\ encodes = 2) =>
                     /\ text.nums[1] = second.p1 /\ text.nums[2] = second.p2
                     /\ text.nums[3] = width /\ text.nums[4] = height
                     /\ text.msg \in ResizedText)
  /\ [][\A o \in Ops :
          pc[o] = "encoding" =>
            /\ framebuffer'[o] = framebuffer[o]
            /\ (pc'[o] = "resizing" <=>
                  (imageBuffer'[o] > 800000 /\ imageBuffer'[o] # imageBuffer[o]))]_vars

\* C24: a first JPEG of 1,000,000 bytes has been replaced by a smaller image
ResizeOnceWitness ==
  \E o \in Ops :
    /\ Succeeded(o)
    /\ imageBuffer[o] = 1000000
    /\ Cardinality(Positions(o, "encode")) = 2
    /\ result[o].content[1].msg \in ResizedText
    /\ result[o].content[1].nums[1] < screen[o][1]

\* the strings of a sequence with the separator sep between them
RECURSIVE Join(_, _)
Join(strings, sep) ==
  IF Len(strings) = 0 THEN <<>>
  ELSE IF Len(strings) = 1 THEN strings[1]
  ELSE strings[1] \o <<sep>> \o Join(Tail(strings), sep)

\* C25: parseKeyInput returns the substrings between the '+' characters of
\* its input: all but the last as the modifiers, in order, and the last as
\* the key, no modifiers for an input without '+'; the modifiers and the key
\* joined with '+' are the input.
ParseRoundTrip ==
  \A o \in Ops :
    pc[o] = "parsed" =>
      LET keyInput == req[o].key
          tokens   == returnValue[o].modifiers \o <<returnValue[o].key>>
          plus     == {k \in 1..Len(keyInput) : keyInput[k] = "+"}
      IN  /\ Len(tokens) = Cardinality(plus) + 1
          /\ \A t \in 1..Len(tokens) :
               \A k \in 1..Len(tokens[t]) : tokens[t][k] # "+"
          /\ Join(tokens, "+") = keyInput

\* String.prototype.toLowerCase of a string of printable ASCII characters
LowerCase(s) ==
  [k \in 1..Len(s) |->
     LET i == CHOOSE j \in 1..Len(Ascii) : Ascii[j] = s[k]
     IN  IF i + 31 \in 65..90 THEN Ascii[i + 32] ELSE s[k]]

IsMapped(key) == \E e \in keyMap : e[1] = key

\* C26: getKeysym returns the code of keyMap for every name of the table:
\* 0x61 for 'a', 0x41 for 'A', 0xff0d for 'Enter' and for 'Return', 0x21 for
\* '!'; a name of several characters and its lowercase form, when both are in
\* the table, have the same code; every printable ASCII character has its
\* own character code; a single character that is not in the table has its
\* character code.
KeysymTable ==
  \A o \in Ops :
    pc[o] = "keysymed" =>
      LET key == req[o].key
          sym == returnValue[o]
      IN  /\ \A e \in keyMap : e[1] = key => sym = e[2]
          /\ key = <<"a">> => sym = 97
          /\ key = <<"A">> => sym = 65
          /\ key \in {<<"E", "n", "t", "e", "r">>, <<"R", "e", "t", "u", "r", "n">>}
               => sym = 65293
          /\ key = <<"!">> => sym = 33
          /\ (IsMapped(key) /\ Len(key) > 1 /\ IsMapped(LowerCase(key))) =>
               \A e \in keyMap : e[1] = LowerCase(key) => sym = e[2]
          /\ (Len(key) = 1 /\ \E k \in 1..Len(Ascii) : Ascii[k] = key[1]) =>
               /\ IsMapped(key)
               /\ sym = 31 + (CHOOSE k \in 1..Len(Ascii) : Ascii[k] = key[1])
          /\ (Len(key) = 1 /\ ~IsMapped(key)) =>
               \E e \in OtherChars : e[1] = key[1] /\ sym = e[2]

\* C26: the character U+00E9, which is not in the table, has given 233
KeysymTableWitness ==
  \E o \in Ops :
    /\ pc[o] = "keysymed"
    /\ req[o].key = <<"eacute">>
    /\ returnValue[o] = 233

\* the waits of a call, in order
Waits(o) == SelectSeq(trace[o], LAMBDA e : e.kind = "wait")

\* C27: a text of more than 10 characters, or with a character of the
\* special set, is typed with a hold of 75 ms and a gap of 100 ms for every
\* character, any other text, one of exactly 10 plain characters included,
\* with 50 ms and 50 ms.
TypingSpeed ==
  \A o \in Ops :
    req[o].name = "vnc_type_text" =>
      LET text     == req[o].text
          slow     == Len(text) > 10 \/ \E k \in 1..Len(text) : text[k] \in specialChars
          hold     == IF slow THEN 75 ELSE 50
          gap      == IF slow THEN 100 ELSE 50
          expected == ExpectedText(client[o], text, hold, gap)
                        \o (IF req[o].enter THEN ExpectedEnter(client[o]) ELSE <<>>)
      IN  /\ IsPrefix(InputEvents(o), expected)
          /\ Succeeded(o) => InputEvents(o) = expected
          /\ ~slow => \A k \in 1..Len(Waits(o)) : Waits(o)[k].p1 \in {10, 50}
          /\ (slow /\ ~req[o].enter) =>
               \A k \in 1..Len(Waits(o)) : Waits(o)[k].p1 \in {10, 75, 100}

\* C27: ten letters have been typed with 50 ms and 50 ms
TypingSpeedWitness ==
  \E o \in Ops :
    /\ Succeeded(o)
    /\ req[o].text = [k \in 1..10 |-> "a"]
    /\ Len(Waits(o)) = 20
    /\ \A k \in 1..20 : Waits(o)[k].p1 = 50

IsEnterEvent(e) == e.kind = "key" /\ e.p1 = 65293

\* C28: vnc_type_text sends Enter, pressed, held 50 ms and released, exactly
\* when its enter argument is true, and only after every character of the
\* text has been typed; when enter is false or absent no Enter event is
\* sent.
EnterOnRequest ==
  \A o \in Ops :
    req[o].name = "vnc_type_text" =>
      LET text   == req[o].text
          typed  == ExpectedText(client[o], text, keyHoldTime(text),
                                 betweenKeyDelay(text))
          events == InputEvents(o)
          n      == Len(events)
          enters == SelectSeq(trace[o], IsEnterEvent)
      IN  /\ ~req[o].enter => enters = <<>>
          /\ enters # <<>> =>
               /\ req[o].enter
               /\ n >= Len(typed) + 2
               /\ SubSeq(events, 1, Len(typed)) = typed
               /\ IsPrefix(SubSeq(events, Len(typed) + 1, n),
                           ExpectedEnter(client[o]))
          /\ (Succeeded(o) /\ req[o].enter) =>
               /\ Len(enters) = 2
               /\ SubSeq(events, n - 2, n) = ExpectedEnter(client[o])
               /\ result[o].content[1].msg = "Typed text + Enter"
          /\ (Succeeded(o) /\ ~req[o].enter) =>
               /\ events = typed
               /\ result[o].content[1].msg = "Typed text"

\* C28: "Hi!" has been typed with enter true, and Enter came last
EnterOnRequestWitness ==
  \E o \in Ops :
    /\ Succeeded(o)
    /\ req[o].text = <<"H", "i", "!">> /\ req[o].enter
    /\ Len(SelectSeq(trace[o], IsEnterEvent)) = 2
    /\ InputEvents(o)[Len(InputEvents(o))] = keyEvent(client[o], 65293, FALSE)

\* C29: a move to a point that passes the validation sends one pointer
\* event, at (x, y) with mask 0, and no other input event, and its result is
\* the text 'Moved mouse to (x, y)'.
MoveSendsOnePointerEvent ==
  \A o \in Ops :
    (req[o].name = "vnc_move_mouse" /\ Positions(o, "callback") # {}
       /\ ~OutsideScreen(o)) =>
      LET x == req[o].x
          y == req[o].y
      IN  /\ pc[o] = "done"
          /\ Succeeded(o) =>
               /\ InputEvents(o) = <<pointerEvent(client[o], x, y, 0)>>
               /\ Cardinality(Positions(o, "pointer")) = 1
               /\ result[o].content =
                    <<TextItem("", "Moved mouse to", <<x, y>>, <<>>)>>
          /\ ~Succeeded(o) => InputEvents(o) = <<>>

\* C29: a move to the last point of the known screen has been sent
MoveSendsOnePointerEventWitness ==
  \E o \in Ops :
    /\ Succeeded(o)
    /\ req[o] = MoveRequest(ScreenSize - 1, ScreenSize - 1)
    /\ screen[o] = <<ScreenSize, ScreenSize>>
    /\ Cardinality(Positions(o, "pointer")) = 1

\* C30: the result of every call is a list of text and image items with at
\* least one text item; a successful screenshot has exactly one image item,
\* of MIME type image/jpeg with data of positive length, and the result of
\* every other call, failed screenshots included, has no image item.
ResultContent ==
  \A o \in Ops :
    pc[o] = "done" =>
      LET content == result[o].content
      IN  /\ \E k \in 1..Len(content) : content[k].type = "text"
          /\ \A k \in 1..Len(content) : content[k].type \in {"text", "image"}
          /\ IF req[o].name = "vnc_screenshot" /\ Succeeded(o)
             THEN /\ Len(Images(o)) = 1
                  /\ Images(o)[1].mimeType = "image/jpeg"
                  /\ Images(o)[1].data > 0
             ELSE Images(o) = <<>>

\* C30: a screenshot has returned its image after a call of another tool
\* has returned text only
ResultContentWitness ==
  \E p, o \in Ops :
    /\ p < o
    /\ Succeeded(p) /\ req[p].name # "vnc_screenshot"
    /\ Images(p) = <<>>
    /\ Succeeded(o) /\ req[o].name = "vnc_screenshot"
    /\ Len(Images(o)) = 1 /\ Len(result[o].content) = 2

\* C31: once the first frame has resolved the setup of a call, the 15000 ms
\* timer of that setup is neither armed nor does it fire: it was cleared
\* when the promise was resolved.
SetupTimerCleared ==
  \A o \in Ops :
    setup[o] = "resolved" => setupTimer[o] \notin {"armed", "fired"}

\* the promise of createConnection is settled
SetupSettled(o) == setup[o] \in {"resolved", "error", "timeout"}

\* a step in which the 15000 ms timer of o fires or an error event arrives
\* on the client of o
LateSetupEvent(o) ==
  \/ setupTimer[o] = "armed" /\ setupTimer'[o] = "fired"
  \/ lib[o] # "error" /\ lib'[o] = "error"

\* C32: the setup of a call has one outcome, which later events leave as it
\* is: the callback starts at most once and only after the first frame
\* resolved the setup, never after a failed setup; a call whose setup failed
\* ends with the error of the setup and a call whose callback ran does not;
\* and the timer or an error event after the setup was settled changes
\* neither the outcome nor the position, the events, the error or the result
\* of the call.
OneSetupOutcome ==
  /\ [](\A o \in Ops :
          /\ Cardinality(Positions(o, "callback")) <= 1
          /\ Positions(o, "callback") # {} => setup[o] = "resolved"
          /\ (pc[o] = "done" /\ setup[o] \in {"error", "timeout"}) =>
               thrown[o] = connectionError(setup[o])
          /\ (pc[o] = "done" /\ setup[o] = "resolved") =>
               /\ Positions(o, "callback") # {}
               /\ thrown[o] \notin {connectionError("error"),
                                    connectionError("timeout")})
  /\ [][\A o \in Ops :
          SetupSettled(o) =>
            /\ setup'[o] = setup[o]
            /\ LateSetupEvent(o) =>
                 /\ pc'[o] = pc[o] /\ trace'[o] = trace[o]
                 /\ thrown'[o] = thrown[o] /\ result'[o] = result[o]]_vars

\* C32: the timer has fired while the callback of a key press is suspended
\* between the press and the release of its key, and the call is as it was
OneSetupOutcomeWitness ==
  \E o \in Ops :
    /\ req[o].name = "vnc_key_press"
    /\ pc[o] = "key_down"
    /\ setup[o] = "resolved" /\ setupTimer[o] = "fired"
    /\ Cardinality(Positions(o, "callback")) = 1
    /\ thrown[o] = NoError /\ result[o] = NoResult

\* C33: the timer and the listener of the frame wait of a screenshot are
\* pending together, and only while the callback waits for the frame; when
\* the wait has ended the timer stays cleared or fired, the listener stays
\* removed, after a timeout the callback goes on with client.fb, and once
\* the callback has gone on no event changes its framebuffer.
FrameRaceOneWinner ==
  /\ [](\A o \in Ops :
          /\ frameListener[o] <=> frameTimer[o] = "armed"
          /\ frameTimer[o] = "armed" <=> pc[o] = "frame_wait"
          /\ (frameTimer[o] = "fired" /\ pc[o] = "captured") =>
               framebuffer[o] = fb[o])
  /\ [][\A o \in Ops :
          frameTimer[o] \in {"cleared", "fired"} =>
            /\ frameTimer'[o] = frameTimer[o]
            /\ ~frameListener'[o]
            /\ pc'[o] # "captured"
            /\ pc[o] # "captured" => framebuffer'[o] = framebuffer[o]]_vars

\* C33: the deadline won, the connection stayed open for later frames while
\* the image was encoded, and the call has returned its screenshot
FrameRaceOneWinnerWitness ==
  \E o \in Ops :
    /\ Succeeded(o) /\ req[o].name = "vnc_screenshot"
    /\ frameTimer[o] = "fired" /\ ~frameListener[o]
    /\ HasImage(o)

\* C34: when a call has ended, disconnect has been called on the client it
\* connected, and the connection of that client is not open.
NoConnectionLeftOpen ==
  \A o \in Ops :
    (pc[o] = "done" /\ Positions(o, "connect") # {}) =>
      /\ Positions(o, "disconnect") # {}
      /\ lib[o] \notin {"connecting", "connected", "authenticated"}

\* C35: every call that has arrived gets its result: the setup ends when its
\* 15000 ms timer fires if nothing ended it before, the frame wait of a
\* screenshot ends when its 2000 ms timer fires, and every other wait of a
\* callback is a timer.
EveryCallReturns ==
  \A o \in Ops :
    (pc[o] # "idle") ~> (pc[o] = "done" /\ result[o].kind = "response")

\* C35: a screenshot whose frame never came has returned after its timer
FrameWaitEnded ==
  \E o \in Ops :
    /\ pc[o] = "done" /\ result[o].kind = "response"
    /\ req[o].name = "vnc_screenshot" /\ frameTimer[o] = "fired"

\* C36: when a call has ended, every key it pressed has been released by a
\* later key event, and every pointer event with a button pressed is
\* followed by a pointer event with no button pressed.
NothingStaysPressed ==
  \A o \in Ops :
    pc[o] = "done" =>
      \A k \in 1..Len(trace[o]) :
        LET e == trace[o][k]
            later == (k + 1)..Len(trace[o])
        IN  /\ (e.kind = "key" /\ e.p2 = 1) =>
                 \E j \in later :
                   /\ trace[o][j].kind = "key"
                   /\ trace[o][j].p1 = e.p1 /\ trace[o][j].p2 = 0
            /\ (e.kind = "pointer" /\ e.p3 # 0) =>
                 \E j \in later :
                   trace[o][j].kind = "pointer" /\ trace[o][j].p3 = 0

\* the call is running and has pressed a key it has not released yet
HoldsKey(p) ==
  /\ pc[p] # "done"
  /\ \E k \in Positions(p, "key") :
       /\ trace[p][k].p2 = 1
       /\ \A j \in Positions(p, "key") :
            j > k => ~(trace[p][j].p1 = trace[p][k].p1 /\ trace[p][j].p2 = 0)

\* the key and pointer events the call has sent
SentInputs(tr) == SelectSeq(tr, LAMBDA e : e.kind \in {"key", "pointer"})

\* C37: while a call holds a key between its press and its release, no
\* other call sends a key or pointer event.
NoForeignEventInHoldWindow ==
  [][\A o, p \in Ops :
       (o # p /\ HoldsKey(p)) => SentInputs(trace'[o]) = SentInputs(trace[o])]_vars

\* C38: every key event of a vnc_key_press call carries a keysym that is an
\* integer, and not the NaN that charCodeAt(0) returns for an empty string.
IntegerKeysyms ==
  \A o \in Ops :
    req[o].name = "vnc_key_press" =>
      \A k \in Positions(o, "key") :
        trace[o][k].p1 \in Nat /\ trace[o][k].p1 # NaN

\* the colour of pixel p of the frame, p counted from 1
PixelColour(bytes, p) == SubSeq(bytes, 4 * p - 3, 4 * p - 1)

\* the share of the colour among the first min(1000, pixels) pixels of the
\* frame is above 0.9
ShareAbove90(bytes, pixels, colour) ==
  LET sample == IF pixels < 1000 THEN pixels ELSE 1000
  IN  10 * Cardinality({p \in 1..sample : PixelColour(bytes, p) = colour})
        > 9 * sample

\* the number of 16-byte windows after the first one, starting within the
\* first 1000 bytes, that hold the same bytes as the first one
WindowRepeats(bytes) ==
  Cardinality({ j \in 1..(Len(bytes) \div 16) :
                  /\ 16 * j < 1000
                  /\ 16 * j + 16 <= Len(bytes)
                  /\ SubSeq(bytes, 16 * j + 1, 16 * j + 16) = SubSeq(bytes, 1, 16) })

====
